---- MODULE Spec2Model ----
(***************************************************************************)
(* Model of the dh_lottery integration: the session client                 *)
(* (client/dh_lottery_client.py) and the Lotto 6/45 purchase workflow       *)
(* (client/dh_lotto_645.py).                                                *)
(*                                                                         *)
(* Coroutines of the one event loop are the processes.  A step of the      *)
(* model is the code that runs between two awaits of a coroutine: the      *)
(* arrival of a response together with everything the coroutine does until *)
(* it suspends again or ends.                                              *)
(***************************************************************************)
EXTENDS Integers, Sequences, FiniteSets, TLC

VARIABLES
    loggedIn,   \* DhLotteryClient.logged_in
    lock,       \* DhLotteryClient.lock, a threading.RLock: [owner, count]
    call,       \* per caller: the running async_get_with_login call
    buy,        \* the running DhLotto645.async_buy call
    clock,      \* the wall clock, in steps of 10 minutes
    acct,       \* DhLotteryCoordinator: its fields and its running update
    tkt,        \* DhLotto645Coordinator: its fields and its running update
    svc,        \* the running call of the purchase service
    rk,         \* calculate_rank: its arguments and its result
    pad,        \* the running pkcs1pad2 call: its arguments, its buffer, its result
    buys,       \* per task: an async_buy call running next to the others
    hist        \* the running _async_get_buy_history_this_week call

clientVars == <<loggedIn, lock, call, buy>>

otherVars == <<clock, acct, tkt, svc, rk, pad, buys, hist>>

vars == <<loggedIn, lock, call, buy, clock, acct, tkt, svc, rk, pad, buys, hist>>

(***************************************************************************)
(* Bounds of the model.                                                    *)
(***************************************************************************)
MaxLedgerLen == 2       \* entries in a ledger response

(***************************************************************************)
(* Exceptions.  Every exception is a record of its class and of the         *)
(* message it carries; `cited' is the amount interpolated in the message.   *)
(***************************************************************************)
NoAmount == 0 - 1     \* None in the place of an amount

Exc(type, msg) == [type |-> type, msg |-> msg, cited |-> NoAmount]

ExcCiting(type, msg, amount) == [type |-> type, msg |-> msg, cited |-> amount]

\* class DhLotteryError and its subclasses
DhLotteryErrorClasses ==
    {"DhLotteryError", "DhAPIError", "DhLotteryLoginError", "DhLotto645Error"}

IsDhLotteryError(e) == e.type \in DhLotteryErrorClasses

NoExc == Exc("None", "none")

NoData == [none |-> TRUE]

Return(d) == [ok |-> TRUE, data |-> d, exc |-> NoExc]

Raise(e) == [ok |-> FALSE, data |-> NoData, exc |-> e]

NoResult == [ok |-> FALSE, data |-> NoData, exc |-> NoExc]

\* dict.get(key, default)
DictGet(d, key, default) == IF key \in DOMAIN d THEN d[key] ELSE default

(***************************************************************************)
(* The lock.  All callers are coroutines of the event loop, so they all    *)
(* run on the same thread.                                                 *)
(***************************************************************************)
NoThread == "none"

EventLoopThread == "MainThread"

Callers == {"account", "ticket", "service"}

ThreadOf(c) == EventLoopThread

RLockFree == [owner |-> NoThread, count |-> 0]

\* RLock.acquire() returns at once for the owning thread and for a free lock
RLockCanAcquire(l, t) == l.owner = NoThread \/ l.owner = t

RLockAcquire(l, t) == [owner |-> t, count |-> l.count + 1]

RLockRelease(l) ==
    IF l.count = 1 THEN RLockFree ELSE [l EXCEPT !.count = l.count - 1]

RECURSIVE RLockReleaseN(_, _)
RLockReleaseN(l, n) == IF n = 0 THEN l ELSE RLockReleaseN(RLockRelease(l), n - 1)

(***************************************************************************)
(* What the server answers.  A response is: whether the request came back  *)
(* at all (conn), status and reason, whether the body parses as JSON, and  *)
(* the parsed body (a dict).                                               *)
(***************************************************************************)
Undrawn == "undrawn"    \* the ledger's ltWnResult of a ticket not yet drawn

Drawn == "drawn"

QtyValues == {1, 2, 4, 5}

LedgerEntries == [prchsQty : QtyValues, ltWnResult : {Undrawn, Drawn}]

RECURSIVE SeqsUpTo(_, _)
SeqsUpTo(S, n) ==
    IF n = 0 THEN {<<>>}
    ELSE LET shorter == SeqsUpTo(S, n - 1) IN
         shorter \cup {Append(q, x) : q \in {t \in shorter : Len(t) = n - 1}, x \in S}

Ledgers == SeqsUpTo(LedgerEntries, MaxLedgerLen)

Amounts == {0, 1000, 2500, 5000}

RoundNos == {1122}

DataOf(path) ==
    CASE path = "ledger" -> {[list |-> l] : l \in Ledgers}
      [] path = "userMndp" -> {[userMndp |-> [crntEntrsAmt |-> a]] : a \in Amounts}
      [] path = "homeInfo" -> {[prchsLmtInfo |-> [wlyPrchsAcmlAmt |-> 0]]}
      [] path = "ticketDetail" -> {[ticket |-> [game_dtl |-> <<>>]]}
      [] path = "roundInfo" ->
            {[list |-> <<>>]} \cup {[list |-> <<[ltEpsd |-> r]>>] : r \in RoundNos}

NoBody == [none |-> TRUE]

TransportFailure ==
    [conn |-> FALSE, status |-> 0, reason |-> "none", json |-> FALSE, body |-> NoBody]

FailResponses ==
    { TransportFailure,
      [conn |-> TRUE, status |-> 500, reason |-> "Internal Server Error",
       json |-> TRUE, body |-> [error |-> TRUE]],
      [conn |-> TRUE, status |-> 500, reason |-> "Internal Server Error",
       json |-> FALSE, body |-> NoBody],
      [conn |-> TRUE, status |-> 200, reason |-> "OK", json |-> FALSE, body |-> NoBody],
      [conn |-> TRUE, status |-> 200, reason |-> "OK",
       json |-> TRUE, body |-> [error |-> TRUE]] }

OkResponses(path) ==
    { [conn |-> TRUE, status |-> 200, reason |-> "OK", json |-> TRUE,
       body |-> [data |-> d]] : d \in DataOf(path) }

Responses(path) == FailResponses \cup OkResponses(path)

(***************************************************************************)
(* DhLotteryClient.handle_response_json and async_get                      *)
(***************************************************************************)
\* handle_response_json raising DhAPIError for a body without `data' too
handle_response_json_one_kind(resp) ==
    IF ~resp.json THEN Raise(Exc("Exception", "not_json"))
    ELSE IF resp.status # 200 \/ resp.reason # "OK"
         THEN Raise(Exc("DhAPIError", "api_request_failed"))
    ELSE IF "data" \notin DOMAIN resp.body
         THEN Raise(Exc("DhAPIError", "bad_response_data"))
    ELSE Return(resp.body.data)

handle_response_json(resp) ==
    IF ~resp.json THEN Raise(Exc("Exception", "not_json"))
    ELSE IF resp.status # 200 \/ resp.reason # "OK"
         THEN Raise(Exc("DhAPIError", "api_request_failed"))
    ELSE IF "data" \notin DOMAIN resp.body
         THEN Raise(Exc("DhLotteryError", "bad_response_data"))
    ELSE Return(resp.body.data)

\* async_get letting a failure of the transport count as a failure of the API
async_get_transport_as_api(resp) ==
    LET r == IF resp.conn THEN handle_response_json(resp)
             ELSE Raise(Exc("Exception", "transport"))
    IN  IF r.ok \/ IsDhLotteryError(r.exc) THEN r
        ELSE Raise(Exc("DhAPIError", "page_not_fetched"))

async_get(resp) ==
    LET r == IF resp.conn THEN handle_response_json(resp)
             ELSE Raise(Exc("Exception", "transport"))
    IN  IF r.ok \/ IsDhLotteryError(r.exc) THEN r
        ELSE Raise(Exc("DhLotteryError", "page_not_fetched"))

(***************************************************************************)
(* DhLotteryClient.async_login.  A login attempt is summed up by: whether  *)
(* the public key was obtained (endpoint or login page), whether the POST  *)
(* came back, the final status and whether the final URL holds             *)
(* loginSuccess.do.                                                        *)
(***************************************************************************)
LoginResponses ==
    { [key |-> FALSE, posted |-> FALSE, status |-> 0, marker |-> FALSE],
      [key |-> TRUE, posted |-> FALSE, status |-> 0, marker |-> FALSE],
      [key |-> TRUE, posted |-> TRUE, status |-> 200, marker |-> TRUE],
      [key |-> TRUE, posted |-> TRUE, status |-> 200, marker |-> FALSE],
      [key |-> TRUE, posted |-> TRUE, status |-> 500, marker |-> TRUE] }

\* the result of the call and the value it leaves in logged_in
async_login(lr, flag) ==
    IF ~lr.key
    THEN [loggedIn |-> flag, result |-> Raise(Exc("DhLotteryError", "rsa_key_not_fetched"))]
    ELSE IF ~lr.posted
    THEN [loggedIn |-> flag, result |-> Raise(Exc("DhLotteryError", "login_not_performed"))]
    ELSE IF lr.status = 200 /\ lr.marker
    THEN [loggedIn |-> TRUE, result |-> Return(NoData)]
    ELSE [loggedIn |-> FALSE, result |-> Raise(Exc("DhLotteryLoginError", "login_failed"))]

(***************************************************************************)
(* DhLotteryClient.async_get_with_login                                    *)
(***************************************************************************)
DefaultRetryTwice == 1 + 1

DefaultRetry == 1

IdleCall ==
    [pc |-> "idle", path |-> "none", retry |-> 0, depth |-> 0,
     trace |-> <<>>, result |-> NoResult]

\* a call that takes the lock once however deep the frame is
EnterCall_once(path, retry, depth, trace) ==
    [pc |-> "get", path |-> path, retry |-> retry, depth |-> 1,
     trace |-> trace, result |-> NoResult]

\* `with self.lock:' and the GET of async_get, up to its await
EnterCall(path, retry, depth, trace) ==
    [pc |-> "get", path |-> path, retry |-> retry, depth |-> depth + 1,
     trace |-> trace, result |-> NoResult]

\* what the try statement makes of the outcome of async_get once no retry is left
GetOutcome(r) ==
    IF r.ok THEN r
    ELSE IF r.exc.type = "DhAPIError"
         THEN Raise(Exc("DhLotteryLoginError", "login_or_api_failed"))
    ELSE IF IsDhLotteryError(r.exc) THEN r
    ELSE Raise(Exc("DhLotteryError", "login_page_not_fetched"))

(***************************************************************************)
(* DhLotto645: slots, the clock, and the checks of async_buy               *)
(***************************************************************************)
MaxRequestLen == 6      \* slots in a request of the purchase service

UnitPrice == 1000

WeeklyLimit == 5

MaxItemCount == 5

MaxManualNumbers == 6

OpeningHour == 6

BlackoutHour == 20

Saturday == 5           \* datetime.weekday() of the draw day

SlotAuto == [mode |-> "AUTO", numbers |-> <<>>]

SlotManual == [mode |-> "MANUAL", numbers |-> <<6, 5, 4, 3, 2, 1>>]

SlotSemiAuto == [mode |-> "SEMI_AUTO", numbers |-> <<9, 7, 9>>]

SlotPool == <<SlotAuto, SlotManual, SlotSemiAuto>>

BaseRequest == [i \in 1..MaxRequestLen |-> SlotPool[((i - 1) % Len(SlotPool)) + 1]]

\* the requests of the service: the runs of consecutive slots of BaseRequest
Requests ==
    {<<>>} \cup {SubSeq(BaseRequest, i, j) : i \in 1..MaxRequestLen, j \in 1..MaxRequestLen}

Clock(wd, h, m) == [weekday |-> wd, hour |-> h, minute |-> m]

AllTimes == [weekday : {Saturday - 1, Saturday}, hour : {0, 5, 6, 20, 21, 23}, minute : {0, 59}]

FewTimes == {Clock(Saturday - 1, 5, 59), Clock(Saturday - 1, 6, 0), Clock(Saturday, 21, 0)}

FewRequests == {<<SlotAuto>>, <<SlotManual, SlotSemiAuto>>}

SeqRange(q) == {q[i] : i \in 1..Len(q)}

\* sorted(numbers) of a collection of distinct numbers
RECURSIVE SortedSeq(_)
SortedSeq(S) ==
    IF S = {} THEN <<>>
    ELSE LET m == CHOOSE x \in S : \A y \in S : x <= y IN <<m>> \o SortedSeq(S \ {m})

\* sorted(numbers) of a list: every entry is kept, equal ones side by side
RECURSIVE sorted(_)
sorted(q) ==
    IF q = <<>> THEN <<>>
    ELSE LET i == CHOOSE j \in 1..Len(q) :
                      /\ \A k \in 1..Len(q) : q[j] <= q[k]
                      /\ \A k \in 1..(j - 1) : q[k] # q[j]
         IN  <<q[i]>> \o sorted(SubSeq(q, 1, i - 1) \o SubSeq(q, i + 1, Len(q)))

\* deduplicate_numbers leaving the numbers as they are
deduplicate_numbers_none(items) == items

\* list(set(numbers)): each value once (the order of the list is used by nothing
\* but the sorted() of make_param)
deduplicate_numbers(items) ==
    [i \in 1..Len(items) |-> [items[i] EXCEPT !.numbers = SortedSeq(SeqRange(@))]]

Min(a, b) == IF a <= b THEN a ELSE b

NoError == NoExc

\* as _check_buy_time, but the shop opens an hour earlier
check_buy_time_open_early(now) ==
    IF now.hour < OpeningHour - 1 THEN Exc("DhLotto645Error", "not_buy_time_daily")
    ELSE IF now.weekday = Saturday /\ now.hour > BlackoutHour
         THEN Exc("DhLotto645Error", "not_buy_time_draw_day")
    ELSE NoError

check_buy_time(now) ==
    IF now.hour < OpeningHour THEN Exc("DhLotto645Error", "not_buy_time_daily")
    ELSE IF now.weekday = Saturday /\ now.hour > BlackoutHour
         THEN Exc("DhLotto645Error", "not_buy_time_draw_day")
    ELSE NoError

\* _check_item_count naming the slot by its 0-based index
check_item_count_zero_based(items) ==
    IF Len(items) = 0 THEN Exc("DhLotto645Error", "no_items")
    ELSE IF Len(items) > MaxItemCount THEN Exc("DhLotto645Error", "too_many_items")
    ELSE LET bad == {i \in 1..Len(items) :
                        /\ items[i].mode = "MANUAL"
                        /\ Len(items[i].numbers) > MaxManualNumbers}
         IN  IF bad # {}
             THEN ExcCiting("DhLotto645Error", "too_many_manual_numbers",
                            (CHOOSE i \in bad : \A j \in bad : i <= j) - 1)
             ELSE NoError

check_item_count(items) ==
    IF Len(items) = 0 THEN Exc("DhLotto645Error", "no_items")
    ELSE IF Len(items) > MaxItemCount THEN Exc("DhLotto645Error", "too_many_items")
    ELSE LET bad == {i \in 1..Len(items) :
                        /\ items[i].mode = "MANUAL"
                        /\ Len(items[i].numbers) > MaxManualNumbers}
         IN  IF bad # {}
             THEN ExcCiting("DhLotto645Error", "too_many_manual_numbers",
                            CHOOSE i \in bad : \A j \in bad : i <= j)
             ELSE NoError

\* sum of prchsQty over every entry of the ledger, drawn or not
RECURSIVE this_week_buy_count_all(_)
this_week_buy_count_all(list) ==
    IF list = <<>> THEN 0
    ELSE DictGet(Head(list), "prchsQty", 0) + this_week_buy_count_all(Tail(list))

\* sum of prchsQty over the entries whose ltWnResult is the undrawn marker
RECURSIVE this_week_buy_count(_)
this_week_buy_count(list) ==
    IF list = <<>> THEN 0
    ELSE (IF DictGet(Head(list), "ltWnResult", "none") = Undrawn
          THEN DictGet(Head(list), "prchsQty", 0) ELSE 0)
         + this_week_buy_count(Tail(list))

\* as _async_check_weekly_limit, rejecting only above the limit
check_weekly_limit_above(count) ==
    IF count > WeeklyLimit THEN Exc("DhLotto645Error", "weekly_limit") ELSE NoError

check_weekly_limit(count) ==
    IF count >= WeeklyLimit THEN Exc("DhLotto645Error", "weekly_limit") ELSE NoError

\* _buy_count = min(len(items), _available_count), ignoring the quota
buy_count_requested(items, this_week) == Len(items)

buy_count(items, this_week) == Min(Len(items), WeeklyLimit - this_week)

\* as _async_check_balance, but against the requested number of slots
check_balance_requested(count, requested, purchase_available) ==
    IF requested * UnitPrice > purchase_available
    THEN ExcCiting("DhLotto645Error", "insufficient_balance", purchase_available)
    ELSE NoError

check_balance(count, requested, purchase_available) ==
    IF count * UnitPrice > purchase_available
    THEN ExcCiting("DhLotto645Error", "insufficient_balance", purchase_available)
    ELSE NoError

\* buy_items = items[:buy_count], but taken from the end of the request
buy_items_last(items, count) == SubSeq(items, Len(items) - count + 1, Len(items))

buy_items(items, count) == SubSeq(items, 1, Min(count, Len(items)))

to_value(mode) ==
    CASE mode = "AUTO" -> "0" [] mode = "MANUAL" -> "1" [] mode = "SEMI_AUTO" -> "2"

NoNumbers == <<0>>      \* None in the place of a number list

Alphabet == <<"A", "B", "C", "D", "E">>

\* make_param sending a slot under the mode the caller gave it
make_param_as_given(tickets) ==
    [i \in 1..Len(tickets) |->
        [genType |-> to_value(tickets[i].mode),
         arrGameChoiceNum |-> IF tickets[i].mode = "AUTO" THEN NoNumbers
                              ELSE sorted(tickets[i].numbers),
         alpabet |-> Alphabet[i]]]

make_param(tickets) ==
    [i \in 1..Len(tickets) |->
        [genType |-> to_value(IF tickets[i].mode = "MANUAL" /\ Len(tickets[i].numbers) # 6
                              THEN "SEMI_AUTO" ELSE tickets[i].mode),
         arrGameChoiceNum |-> IF tickets[i].mode = "AUTO" THEN NoNumbers
                              ELSE sorted(tickets[i].numbers),
         alpabet |-> Alphabet[i]]]

(***************************************************************************)
(* The answers to the two POSTs of async_buy and to the round query        *)
(***************************************************************************)
SocketResponses ==
    { [conn |-> FALSE, json |-> FALSE, body |-> NoBody],
      [conn |-> TRUE, json |-> FALSE, body |-> NoBody],
      [conn |-> TRUE, json |-> TRUE, body |-> [error |-> TRUE]],
      [conn |-> TRUE, json |-> TRUE, body |-> [ready_ip |-> "10.0.0.1"]] }

Receipt ==
    [resultCode |-> "100", resultMsg |-> "SUCCESS", buyRound |-> "1123",
     arrGameChoiceNum |-> <<[slot |-> "A", numbers |-> <<1, 2, 4, 27, 39, 44>>, mode |-> "3"]>>]

ExecResponses ==
    { [conn |-> FALSE, json |-> FALSE, body |-> NoBody],           \* timeout
      [conn |-> TRUE, json |-> FALSE, body |-> NoBody],
      [conn |-> TRUE, json |-> TRUE, body |-> [loginYn |-> "N"]],
      [conn |-> TRUE, json |-> TRUE,
       body |-> [result |-> [resultCode |-> "-7", resultMsg |-> "limit_exceeded"]]],
      [conn |-> TRUE, json |-> TRUE, body |-> [result |-> [resultCode |-> "-1"]]],
      [conn |-> TRUE, json |-> TRUE, body |-> [result |-> [resultCode |-> "100"]]],
      [conn |-> TRUE, json |-> TRUE, body |-> [result |-> Receipt]] }

value_of(digit) ==
    CASE digit = "1" -> "MANUAL" [] digit = "2" -> "SEMI_AUTO" [] digit = "3" -> "AUTO"
      [] OTHER -> "ValueError"

\* parse_result that fills in what the reply lacks
parse_result_lenient(result) ==
    IF ~({"buyRound", "arrGameChoiceNum"} \subseteq DOMAIN result)
    THEN Return([round_no |-> DictGet(result, "buyRound", "0"), games |-> <<>>])
    ELSE Return([round_no |-> result.buyRound,
                 games |-> [i \in 1..Len(result.arrGameChoiceNum) |->
                              [slot |-> result.arrGameChoiceNum[i].slot,
                               mode |-> value_of(result.arrGameChoiceNum[i].mode),
                               numbers |-> result.arrGameChoiceNum[i].numbers]]])

\* parse_result: the receipt, or the exception of a missing key or a bad mode digit
parse_result(result) ==
    IF ~({"buyRound", "arrGameChoiceNum"} \subseteq DOMAIN result)
    THEN Raise(Exc("KeyError", "receipt_key"))
    ELSE IF \E i \in 1..Len(result.arrGameChoiceNum) :
                value_of(result.arrGameChoiceNum[i].mode) = "ValueError"
    THEN Raise(Exc("ValueError", "invalid_value"))
    ELSE Return([round_no |-> result.buyRound,
                 games |-> [i \in 1..Len(result.arrGameChoiceNum) |->
                              [slot |-> result.arrGameChoiceNum[i].slot,
                               mode |-> value_of(result.arrGameChoiceNum[i].mode),
                               numbers |-> result.arrGameChoiceNum[i].numbers]]])

\* the except clauses of async_buy
buy_except(r) ==
    IF r.ok \/ IsDhLotteryError(r.exc) THEN r
    ELSE Raise(Exc("DhLotto645Error", "purchase_failed"))

(***************************************************************************)
(* The state of a run of async_buy                                         *)
(***************************************************************************)
NoPost == [round |-> 0, direct |-> "none", nBuyAmount |-> 0, param |-> <<>>, gameCnt |-> 0]

NoCount == NoAmount

BuyCaller == "service"

\* the tasks that can be inside async_buy at once: two calls of the service
Tasks == {"first", "second"}

IdleBuy ==
    [pc |-> "idle", now |-> Clock(Saturday - 1, 6, 0), request |-> <<>>, items |-> <<>>,
     checks |-> <<>>, net |-> <<>>, ledger |-> <<>>, this_week |-> NoCount,
     purchase_available |-> NoAmount, count |-> NoCount, live_round |-> 0,
     sent |-> NoPost, reply |-> NoBody, result |-> NoResult]

BuyDone(b, r) == [b EXCEPT !.pc = "done", !.result = buy_except(r)]

\* the run issues a request and suspends at `where'
BuyAwait(b, where, request) == [b EXCEPT !.pc = where, !.net = Append(@, request)]

(***************************************************************************)
(* async_buy, one definition per stretch of code between two awaits.  Each *)
(* gives the state of the run after the stretch.                           *)
(***************************************************************************)
\* as buy_begin, with _check_item_count run before _check_buy_time
buy_begin_count_first(now, request) ==
    LET items == deduplicate_numbers(request)
        b0 == [IdleBuy EXCEPT !.now = now, !.request = request, !.items = items]
        b1 == [b0 EXCEPT !.checks = <<"count">>]
        b2 == [b1 EXCEPT !.checks = Append(@, "time")]
    IN  IF check_item_count(items) # NoError
        THEN BuyDone(b1, Raise(check_item_count(items)))
        ELSE IF check_buy_time(now) # NoError
        THEN BuyDone(b2, Raise(check_buy_time(now)))
        ELSE BuyAwait(b2, "ledger", "ledger")

\* deduplicate_numbers, _check_buy_time, _check_item_count, then the ledger query
buy_begin(now, request) ==
    LET items == deduplicate_numbers(request)
        b0 == [IdleBuy EXCEPT !.now = now, !.request = request, !.items = items]
        b1 == [b0 EXCEPT !.checks = <<"time">>]
        b2 == [b1 EXCEPT !.checks = Append(@, "count")]
    IN  IF check_buy_time(now) # NoError
        THEN BuyDone(b1, Raise(check_buy_time(now)))
        ELSE IF check_item_count(items) # NoError
        THEN BuyDone(b2, Raise(check_item_count(items)))
        ELSE BuyAwait(b2, "ledger", "ledger")

\* async_get_buy_list returns; _async_check_weekly_limit; async_get_balance starts
buy_on_ledger(b, res) ==
    IF ~res.ok THEN BuyDone(b, Raise(Exc("DhLotteryError", "buy_list_failed")))
    ELSE LET list == DictGet(res.data, "list", <<>>)
             n == this_week_buy_count(list)
             b1 == [b EXCEPT !.ledger = list, !.this_week = n,
                             !.checks = Append(@, "quota")]
         IN  IF check_weekly_limit(n) # NoError
             THEN BuyDone(b1, Raise(check_weekly_limit(n)))
             ELSE BuyAwait(b1, "userMndp", "userMndp")

\* async_get_balance: the first query returns, the second starts
buy_on_userMndp(b, res) ==
    IF ~res.ok THEN BuyDone(b, Raise(Exc("DhLotteryError", "balance_failed")))
    ELSE LET user_mndp == DictGet(res.data, "userMndp", NoData)
             b1 == [b EXCEPT !.purchase_available = DictGet(user_mndp, "crntEntrsAmt", 0)]
         IN  BuyAwait(b1, "homeInfo", "homeInfo")

\* async_get_balance returns; _buy_count; _async_check_balance; the round query starts
buy_on_homeInfo(b, res) ==
    IF ~res.ok THEN BuyDone(b, Raise(Exc("DhLotteryError", "balance_failed")))
    ELSE LET n == buy_count(b.items, b.this_week)
             e == check_balance(n, Len(b.items), b.purchase_available)
             b1 == [b EXCEPT !.count = n, !.checks = Append(@, "balance")]
         IN  IF e # NoError THEN BuyDone(b1, Raise(e))
             ELSE BuyAwait(b1, "round", "roundInfo")

\* async_get_round_info returns; the ready-socket POST is issued
buy_on_round(b, resp) ==
    LET r == async_get(resp)
        list == DictGet(r.data, "list", <<>>)
    IN  IF ~r.ok THEN BuyDone(b, r)
        ELSE IF list = <<>> THEN BuyDone(b, Raise(Exc("DhLotto645Error", "round_info_failed")))
        ELSE BuyAwait([b EXCEPT !.live_round = list[1].ltEpsd + 1], "socket", "readySocket")

\* get_user_ready_socket returns; make_param; the purchase POST is issued
buy_on_socket(b, resp) ==
    IF ~resp.conn THEN BuyDone(b, Raise(Exc("Exception", "transport")))
    ELSE IF ~resp.json THEN BuyDone(b, Raise(Exc("JSONDecodeError", "not_json")))
    ELSE IF "ready_ip" \notin DOMAIN resp.body
    THEN BuyDone(b, Raise(Exc("KeyError", "ready_ip")))
    ELSE LET its == buy_items(b.items, b.count)
             post == [round |-> b.live_round, direct |-> resp.body.ready_ip,
                      nBuyAmount |-> UnitPrice * Len(its), param |-> make_param(its),
                      gameCnt |-> Len(its)]
         IN  BuyAwait([b EXCEPT !.sent = post], "exec", "execBuy")

\* the purchase POST returns: result code, parse_result
exec_outcome(resp) ==
    IF ~resp.conn THEN Raise(Exc("Exception", "timeout"))
    ELSE IF ~resp.json THEN Raise(Exc("Exception", "not_json"))
    ELSE IF "result" \notin DOMAIN resp.body THEN Raise(Exc("KeyError", "result"))
    ELSE IF "resultCode" \notin DOMAIN resp.body.result
    THEN Raise(Exc("KeyError", "resultCode"))
    ELSE IF resp.body.result.resultCode # "100"
    THEN IF "resultMsg" \in DOMAIN resp.body.result
         THEN Raise(Exc("DhLotto645Error", resp.body.result.resultMsg))
         ELSE Raise(Exc("KeyError", "resultMsg"))
    ELSE parse_result(resp.body.result)

\* as buy_on_exec, but a purchase that did not succeed is submitted once more
buy_on_exec_resubmit(b, resp) ==
    IF ~exec_outcome(resp).ok /\ Len(b.net) < 8
    THEN BuyAwait(b, "exec", "execBuy")
    ELSE BuyDone([b EXCEPT !.reply = resp], exec_outcome(resp))

\* the reply to the purchase POST is kept beside the result it leads to
buy_on_exec(b, resp) == BuyDone([b EXCEPT !.reply = resp], exec_outcome(resp))

(***************************************************************************)
(* The clock and the coordinators.  The clock counts steps of 10 minutes   *)
(* from the midnight that begins the Saturday of the previous draw; the    *)
(* updates start on the Saturday after, at 20:30.                          *)
(***************************************************************************)
MaxElapsed == 3         \* steps the clock advances

StepsPerDay == 144

MinutesPerStep == 10

DrawDay == 7            \* the day of the coming draw, a Saturday

StartTime == DrawDay * StepsPerDay + 123

Date(t) == t \div StepsPerDay

Weekday(t) == (Saturday + Date(t)) % 7

MinuteOfDay(t) == (t % StepsPerDay) * MinutesPerStep

NoTime == 0 - 1         \* None in the place of a datetime

\* a date as text: its day, and what separates year, month and day in it
DateText(day, sep) == [day |-> day, sep |-> sep]

\* now.strftime("%Y-%m-%d")
strftime(now) == DateText(Date(now), "-")

\* None in the place of a WinningData
NoDraw == [round_no |-> 0, draw_date |-> DateText(NoTime, "none")]

\* the draws as the server reports them, last week's and today's, with ltRflYmd
\* written with separator sep
DrawsAs(sep) ==
    {[round_no |-> 1122, draw_date |-> DateText(0, sep)],
     [round_no |-> 1123, draw_date |-> DateText(DrawDay, sep)]}

\* a server that writes its dates as strftime("%Y-%m-%d") does
Draws == DrawsAs("-")

IdleAcct ==
    [balance_last_updated |-> NoTime, accumulated_prize_last_updated |-> NoTime,
     pc |-> "idle", now |-> NoTime, before |-> <<NoTime, NoTime>>, decisions |-> <<>>,
     outcome |-> "none", cleared |-> FALSE, forced |-> FALSE]

IdleTkt ==
    [latest_winning_numbers |-> NoDraw, buy_history_last_updated |-> NoTime,
     winning_dict |-> {}, round_no |-> 0,
     pc |-> "idle", now |-> NoTime, before |-> <<NoDraw, NoTime>>, decisions |-> <<>>,
     outcome |-> "none", cleared |-> FALSE, forced |-> FALSE]

IdleSvc == [pc |-> "idle", log |-> <<>>, response |-> "none"]

\* no call of _async_get_buy_history_this_week is running
IdleHist ==
    [pc |-> "idle", results |-> <<>>, history |-> <<>>, item |-> 1, game |-> 1,
     items |-> <<>>, outcome |-> "none"]

IdleRank == [pc |-> "idle", my_numbers |-> <<>>, win_numbers |-> <<>>, bonus |-> 0, rank |-> 0 - 1]

IdlePad == [pc |-> "idle", s |-> <<>>, n |-> 0, ba |-> <<>>, n_idx |-> 0, result |-> NoResult]

(***************************************************************************)
(* Actions                                                                 *)
(***************************************************************************)
Init ==
    /\ loggedIn = FALSE
    /\ lock = RLockFree
    /\ call = [c \in Callers |-> IdleCall]
    /\ buy = IdleBuy
    /\ clock = StartTime
    /\ acct = IdleAcct
    /\ tkt = IdleTkt
    /\ svc = IdleSvc
    /\ rk = IdleRank
    /\ pad = IdlePad
    /\ buys = [t \in Tasks |-> IdleBuy]
    /\ hist = IdleHist

CallPcs == {"ledger", "userMndp", "homeInfo"}

\* the first authenticated query of each caller
PathOf(c) ==
    CASE c = "account" -> "userMndp" [] c = "ticket" -> "ticketDetail" [] c = "service" -> "ledger"

\* async_buy resumes with the result of an authenticated query
buy_resume(b, res) ==
    CASE b.pc = "ledger" -> buy_on_ledger(b, res)
      [] b.pc = "userMndp" -> buy_on_userMndp(b, res)
      [] b.pc = "homeInfo" -> buy_on_homeInfo(b, res)

\* async_get_with_login ends with result res: the with blocks are left, and the
\* caller runs on until its next await
Deliver(c, tr, res) ==
    LET lk == RLockReleaseN(lock, call[c].depth)
        done == [call[c] EXCEPT !.pc = "done", !.depth = 0, !.trace = tr, !.result = res]
        nb == buy_resume(buy, res)
    IN  IF c = BuyCaller /\ buy.pc \in CallPcs
        THEN /\ buy' = nb
             /\ IF nb.pc \in CallPcs
                THEN /\ RLockCanAcquire(lk, ThreadOf(c))
                     /\ lock' = RLockAcquire(lk, ThreadOf(c))
                     /\ call' = [call EXCEPT ![c] = EnterCall(nb.pc, DefaultRetry, 0, <<>>)]
                ELSE /\ lock' = lk
                     /\ call' = [call EXCEPT ![c] = done]
        ELSE /\ lock' = lk
             /\ call' = [call EXCEPT ![c] = done]
             /\ UNCHANGED buy

\* a coroutine calls async_get_with_login(path, params)
CallStart(c) ==
    /\ call[c].pc \in {"idle", "done"}
    /\ c = BuyCaller => buy.pc = "idle"
    /\ RLockCanAcquire(lock, ThreadOf(c))
    /\ lock' = RLockAcquire(lock, ThreadOf(c))
    /\ call' = [call EXCEPT ![c] = EnterCall(PathOf(c), DefaultRetry, 0, <<>>)]
    /\ UNCHANGED <<loggedIn, buy>>
    /\ UNCHANGED otherVars

\* the GET of async_get returns
GetReturn(c) ==
    /\ call[c].pc = "get"
    /\ \E resp \in Responses(call[c].path) :
         LET f == call[c]
             r == async_get(resp)
             tr == Append(f.trace, [op |-> "get", resp |-> resp])
         IN  IF ~r.ok /\ r.exc.type = "DhAPIError" /\ f.retry > 0
             THEN \* await self.async_login()
                  /\ call' = [call EXCEPT ![c] = [f EXCEPT !.pc = "login", !.trace = tr]]
                  /\ UNCHANGED <<lock, buy>>
             ELSE Deliver(c, tr, GetOutcome(r))
    /\ UNCHANGED loggedIn
    /\ UNCHANGED otherVars

\* async_login returns or raises
LoginReturn(c) ==
    /\ call[c].pc = "login"
    /\ \E lr \in LoginResponses :
         LET f == call[c]
             out == async_login(lr, loggedIn)
             tr == Append(f.trace, [op |-> "login", resp |-> lr])
         IN  /\ loggedIn' = out.loggedIn
             /\ IF out.result.ok
                THEN \* return await self.async_get_with_login(path, params, retry - 1)
                     /\ RLockCanAcquire(lock, ThreadOf(c))
                     /\ lock' = RLockAcquire(lock, ThreadOf(c))
                     /\ call' = [call EXCEPT ![c] =
                                   EnterCall(f.path, f.retry - 1, f.depth, tr)]
                     /\ UNCHANGED buy
                ELSE Deliver(c, tr, out.result)
    /\ UNCHANGED otherVars

\* async_buy(items) is called and runs to its first await
BuyCall(times, requests) ==
    /\ buy.pc = "idle"
    /\ call[BuyCaller].pc \in {"idle", "done"}
    /\ \E now \in times, request \in requests :
         LET nb == buy_begin(now, request) IN
         /\ buy' = nb
         /\ IF nb.pc \in CallPcs
            THEN /\ RLockCanAcquire(lock, ThreadOf(BuyCaller))
                 /\ lock' = RLockAcquire(lock, ThreadOf(BuyCaller))
                 /\ call' = [call EXCEPT ![BuyCaller] =
                               EnterCall(nb.pc, DefaultRetry, 0, <<>>)]
            ELSE UNCHANGED <<lock, call>>
    /\ UNCHANGED loggedIn

\* async_buy called on its own, outside the purchase service
BuyStart(times, requests) ==
    /\ svc.pc = "idle"
    /\ BuyCall(times, requests)
    /\ UNCHANGED otherVars

BuyRoundReturn ==
    /\ buy.pc = "round"
    /\ \E resp \in Responses("roundInfo") : buy' = buy_on_round(buy, resp)
    /\ UNCHANGED <<loggedIn, lock, call>>
    /\ UNCHANGED otherVars

BuySocketReturn ==
    /\ buy.pc = "socket"
    /\ \E resp \in SocketResponses : buy' = buy_on_socket(buy, resp)
    /\ UNCHANGED <<loggedIn, lock, call>>
    /\ UNCHANGED otherVars

BuyExecReturn ==
    /\ buy.pc = "exec"
    /\ \E resp \in ExecResponses : buy' = buy_on_exec(buy, resp)
    /\ UNCHANGED <<loggedIn, lock, call>>
    /\ UNCHANGED otherVars

\* async_buy has returned or raised: the service call ends
BuyEnd ==
    /\ buy.pc = "done"
    /\ svc.pc = "idle"
    /\ buy' = IdleBuy
    /\ UNCHANGED <<loggedIn, lock, call>>
    /\ UNCHANGED otherVars

(***************************************************************************)
(* Specifications                                                          *)
(***************************************************************************)
\* concurrent callers of async_get_with_login
NextClient == \E c \in Callers : CallStart(c) \/ GetReturn(c) \/ LoginReturn(c)

SpecClient == Init /\ [][NextClient]_vars

\* the steps of a running async_buy
BuyRun ==
    \/ GetReturn(BuyCaller)
    \/ LoginReturn(BuyCaller)
    \/ BuyRoundReturn
    \/ BuySocketReturn
    \/ BuyExecReturn

BuySteps == BuyRun \/ BuyEnd

\* the purchase service: every request, at a few times of day
NextBuy == BuyStart(FewTimes, Requests) \/ BuySteps

SpecBuy == Init /\ [][NextBuy]_vars

\* the purchase service: a few requests, at every time of day
NextBuyTime == BuyStart(AllTimes, FewRequests) \/ BuySteps

SpecBuyTime == Init /\ [][NextBuyTime]_vars

Next == NextClient \/ NextBuy

Spec == Init /\ [][Next]_vars

(***************************************************************************)
(* Vocabulary of the properties, in terms of what was received and sent    *)
(***************************************************************************)
\* a response that reports a failure of the API: it came back, and not as 200 OK
ApiFailure(resp) == resp.conn /\ resp.json /\ (resp.status # 200 \/ resp.reason # "OK")

GetSuccess(resp) ==
    /\ resp.conn /\ resp.json /\ resp.status = 200 /\ resp.reason = "OK"
    /\ "data" \in DOMAIN resp.body

LoginSucceeded(lr) == lr.key /\ lr.posted /\ lr.status = 200 /\ lr.marker

LoginOrApiError == Raise(Exc("DhLotteryLoginError", "login_or_api_failed"))

Inside(c) == call[c].pc \in {"get", "login"}

Count(q, x) == Cardinality({i \in 1..Len(q) : q[i] = x})

\* the quantity of the undrawn entries of a ledger
RECURSIVE SumOver(_, _)
SumOver(list, idx) ==
    IF idx = {} THEN 0
    ELSE LET i == CHOOSE j \in idx : TRUE IN list[i].prchsQty + SumOver(list, idx \ {i})

UndrawnQuantity(list) ==
    SumOver(list, {i \in 1..Len(list) : list[i].ltWnResult = Undrawn})

Rejected(msgs) ==
    /\ buy.pc = "done"
    /\ ~buy.result.ok
    /\ buy.result.exc.type = "DhLotto645Error"
    /\ buy.result.exc.msg \in msgs

TimeErrors == {"not_buy_time_daily", "not_buy_time_draw_day"}

CountErrors == {"no_items", "too_many_items", "too_many_manual_numbers"}

QuotaErrors == {"weekly_limit"}

BalanceErrors == {"insufficient_balance"}

CheckOrder == <<"time", "count", "quota", "balance">>

PostIssued == "readySocket" \in SeqRange(buy.net) \/ "execBuy" \in SeqRange(buy.net)

\* the number of slots the quota leaves of the request
Retained == Min(Len(buy.request), 5 - UndrawnQuantity(buy.ledger))

(***************************************************************************)
(* C1: in a call of async_get_with_login whose first GET reports an API    *)
(* failure, one login follows and, once it has succeeded, one more GET and *)
(* nothing else; a successful second GET gives the call its payload as it  *)
(* is, a second API failure makes the call raise DhLotteryLoginError.      *)
(***************************************************************************)
C1_RetryOnce ==
    \A c \in Callers :
        LET f == call[c]
            tr == f.trace
        IN  (Len(tr) >= 1 /\ ApiFailure(tr[1].resp)) =>
              /\ Len(tr) <= 3
              /\ Len(tr) >= 2 => tr[2].op = "login"
              /\ Len(tr) = 3 => tr[3].op = "get" /\ LoginSucceeded(tr[2].resp)
              /\ f.pc = "done" =>
                   /\ Len(tr) >= 2
                   /\ LoginSucceeded(tr[2].resp) =>
                        /\ Len(tr) = 3
                        /\ GetSuccess(tr[3].resp) => f.result = Return(tr[3].resp.body.data)
                        /\ ApiFailure(tr[3].resp) => f.result = LoginOrApiError

C1_Witness ==
    \E c, d \in Callers :
        /\ call[c].pc = "done" /\ Len(call[c].trace) = 3
        /\ ApiFailure(call[c].trace[1].resp) /\ GetSuccess(call[c].trace[3].resp)
        /\ call[c].result.ok
        /\ call[d].pc = "done" /\ Len(call[d].trace) = 3
        /\ ApiFailure(call[d].trace[1].resp) /\ ApiFailure(call[d].trace[3].resp)
        /\ call[d].result = LoginOrApiError

(***************************************************************************)
(* C2: at most one caller is inside the get / re-login / retry sequence of *)
(* async_get_with_login at any time, and so at most one login is in flight.*)
(***************************************************************************)
C2_OneCallerInside == Cardinality({c \in Callers : Inside(c)}) <= 1

(***************************************************************************)
(* C3: the checks of async_buy run in the order time, item count, weekly   *)
(* quota, balance; the first that fails ends the run with its own error    *)
(* and without any POST; the POSTs are issued only after all four passed.  *)
(***************************************************************************)
C3_ChecksInOrder ==
    /\ buy.checks = SubSeq(CheckOrder, 1, Len(buy.checks))
    /\ Rejected(TimeErrors) => buy.checks = <<"time">> /\ buy.net = <<>>
    /\ Rejected(CountErrors) => buy.checks = <<"time", "count">> /\ buy.net = <<>>
    /\ Rejected(QuotaErrors) =>
          buy.checks = <<"time", "count", "quota">> /\ buy.net = <<"ledger">>
    /\ Rejected(BalanceErrors) =>
          buy.checks = CheckOrder /\ buy.net = <<"ledger", "userMndp", "homeInfo">>
    /\ (buy.pc # "idle" /\ buy.now.hour < 6) => Rejected(TimeErrors)
    /\ (buy.pc # "idle" /\ ~Rejected(TimeErrors) /\ Len(buy.request) \notin 1..5) =>
          Rejected(CountErrors)
    /\ (buy.this_week # NoCount /\ buy.this_week >= 5) => Rejected(QuotaErrors)
    /\ (buy.count # NoCount /\ buy.count * 1000 > buy.purchase_available) =>
          Rejected(BalanceErrors)
    /\ PostIssued =>
          /\ buy.checks = CheckOrder
          /\ buy.now.hour >= 6
          /\ Len(buy.request) \in 1..5
          /\ UndrawnQuantity(buy.ledger) < 5
          /\ Retained * 1000 <= buy.purchase_available

C3_Witness == Rejected(BalanceErrors) /\ buy.checks = CheckOrder

(***************************************************************************)
(* C4: a run of async_buy sends the purchase POST at most once and the     *)
(* ready-socket POST at most once, whatever the outcome.                   *)
(***************************************************************************)
C4_PostsAtMostOnce ==
    /\ Count(buy.net, "execBuy") <= 1
    /\ Count(buy.net, "readySocket") <= 1

\* a purchase POST failed, in a run whose last authenticated query had to log in again
C4_Witness ==
    /\ buy.pc = "done" /\ ~buy.result.ok
    /\ Count(buy.net, "execBuy") = 1
    /\ Len(call[BuyCaller].trace) = 3

(***************************************************************************)
(* C5: the weekly running total of async_buy is the sum of prchsQty over   *)
(* exactly the undrawn entries of the ledger; a total of 5 or more is      *)
(* rejected with the weekly-quota error before the balance query and the   *)
(* POSTs, a total below 5 is never rejected on that ground.                *)
(***************************************************************************)
C5_WeeklyQuota ==
    /\ buy.this_week # NoCount => buy.this_week = UndrawnQuantity(buy.ledger)
    /\ (buy.this_week # NoCount /\ UndrawnQuantity(buy.ledger) >= 5) =>
          /\ Rejected(QuotaErrors)
          /\ buy.net = <<"ledger">>
    /\ Rejected(QuotaErrors) =>
          /\ "quota" \in SeqRange(buy.checks)
          /\ UndrawnQuantity(buy.ledger) >= 5
          /\ buy.net = <<"ledger">>

\* rejected on a ledger that also holds drawn entries
C5_Witness ==
    /\ Rejected(QuotaErrors)
    /\ \E i \in 1..Len(buy.ledger) : buy.ledger[i].ltWnResult = Drawn
    /\ \E i \in 1..Len(buy.ledger) : buy.ledger[i].ltWnResult = Undrawn

(***************************************************************************)
(* C6: the purchase POST carries the first min(requested, 5 - running      *)
(* total) slots of the request in their order; gameCnt is that number and  *)
(* nBuyAmount that number times 1000; dropping slots raises no error.      *)
(***************************************************************************)
C6_TruncatedPurchase ==
    buy.sent # NoPost =>
        /\ Retained >= 1
        /\ buy.sent.gameCnt = Retained
        /\ buy.sent.nBuyAmount = Retained * 1000
        /\ buy.sent.param = make_param(SubSeq(buy.items, 1, Retained))
        /\ \A i \in 1..Retained : buy.items[i].mode = buy.request[i].mode

\* slots were dropped, more than one was kept, and the purchase went through
C6_Witness ==
    /\ buy.pc = "done" /\ buy.result.ok
    /\ buy.sent # NoPost
    /\ buy.sent.gameCnt >= 3
    /\ buy.sent.gameCnt < Len(buy.request)

(***************************************************************************)
(* C7 as claimed: with undrawn quantity 4 in the ledger and 3 slots        *)
(* requested, the purchase async_buy submits holds all 3 slots.            *)
(***************************************************************************)
C7_AllThreeRetained ==
    (buy.sent # NoPost /\ UndrawnQuantity(buy.ledger) = 4 /\ Len(buy.request) = 3) =>
        buy.sent.gameCnt = 3 /\ Len(buy.sent.param) = 3

(***************************************************************************)
(* C7 amended: with undrawn quantity 4 in the ledger and 3 slots requested,*)
(* the purchase async_buy submits holds the first slot only (5 - 4 = 1).   *)
(***************************************************************************)
C7_OnlyFirstRetained ==
    (buy.sent # NoPost /\ UndrawnQuantity(buy.ledger) = 4 /\ Len(buy.request) = 3) =>
        /\ buy.sent.gameCnt = 1
        /\ buy.sent.nBuyAmount = 1000
        /\ buy.sent.param = make_param(<<buy.items[1]>>)

C7_Witness ==
    /\ buy.sent # NoPost
    /\ UndrawnQuantity(buy.ledger) = 4
    /\ Len(buy.request) = 3
    /\ "execBuy" \in SeqRange(buy.net)

(***************************************************************************)
(* C8: async_buy rejects with the insufficient-balance error, citing       *)
(* purchase_available, exactly when (slots left after the quota            *)
(* truncation) * 1000 > purchase_available; otherwise it goes on to the    *)
(* execution.                                                              *)
(***************************************************************************)
C8_BalanceCheck ==
    /\ Rejected(BalanceErrors) =>
          /\ Retained * 1000 > buy.purchase_available
          /\ buy.result.exc.cited = buy.purchase_available
    /\ "balance" \in SeqRange(buy.checks) =>
          IF Retained * 1000 > buy.purchase_available
          THEN Rejected(BalanceErrors)
          ELSE "roundInfo" \in SeqRange(buy.net)

\* 2500 available, 3 slots left of a longer request: rejected citing 2500
C8_Witness ==
    /\ Rejected(BalanceErrors)
    /\ buy.result.exc.cited = 2500
    /\ Retained = 3
    /\ Len(buy.request) > 3

(***************************************************************************)
(* C9: a call of async_buy at an hour below 6 (up to 05:59) is rejected    *)
(* with the time-window error before any other check and any request; a    *)
(* call from 06:00 on is not rejected for the daily closing.               *)
(***************************************************************************)
C9_DailyClosing ==
    /\ (buy.pc # "idle" /\ buy.now.hour < 6) =>
          /\ Rejected({"not_buy_time_daily"})
          /\ buy.checks = <<"time">>
          /\ buy.net = <<>>
    /\ (buy.pc # "idle" /\ buy.now.hour >= 6) => ~Rejected({"not_buy_time_daily"})

C9_Witness ==
    /\ Rejected({"not_buy_time_daily"})
    /\ buy.now.hour = 5 /\ buy.now.minute = 59
    /\ Len(buy.request) >= 1

(***************************************************************************)
(* C10: on Saturday every call of async_buy from 20:00 on is rejected with *)
(* the time-window error and sends no purchase POST.                       *)
(***************************************************************************)
C10_BlackoutFromEight ==
    (buy.pc # "idle" /\ buy.now.weekday = Saturday /\ buy.now.hour >= 20) =>
        /\ Rejected(TimeErrors)
        /\ "execBuy" \notin SeqRange(buy.net)

(***************************************************************************)
(* Requests that exercise _check_item_count: slots whose MANUAL numbers    *)
(* are too many after deduplication, and slots that only look too long.    *)
(***************************************************************************)
MaxItemsLen == 3

SlotManualOver == [mode |-> "MANUAL", numbers |-> <<7, 6, 5, 4, 3, 2, 1>>]

SlotManualDup == [mode |-> "MANUAL", numbers |-> <<6, 5, 4, 3, 2, 1, 6>>]

ItemRequests == SeqsUpTo({SlotAuto, SlotManualOver, SlotManualDup}, MaxItemsLen) \cup {BaseRequest}

NextBuyItems == BuyStart(FewTimes, ItemRequests) \/ BuySteps

SpecBuyItems == Init /\ [][NextBuyItems]_vars

\* the MANUAL slots of the request that hold more than 6 different numbers
ManualOverflow ==
    {i \in 1..Len(buy.request) :
        /\ buy.request[i].mode = "MANUAL"
        /\ Cardinality(SeqRange(buy.request[i].numbers)) > 6}

\* C11: once the time check has passed, a purchase of 0 slots, of more than 5
\* slots, or with a Manual slot of more than 6 different numbers is rejected
\* before any network request, the last one naming the 1-based position of the
\* first such slot; no other request is rejected by the item-count check.
C11_ItemCountRejects ==
    "count" \in SeqRange(buy.checks) =>
        IF Len(buy.request) = 0
        THEN Rejected({"no_items"}) /\ buy.net = <<>>
        ELSE IF Len(buy.request) > 5
        THEN Rejected({"too_many_items"}) /\ buy.net = <<>>
        ELSE IF ManualOverflow # {}
        THEN /\ Rejected({"too_many_manual_numbers"})
             /\ buy.net = <<>>
             /\ buy.result.exc.cited \in ManualOverflow
             /\ \A i \in ManualOverflow : buy.result.exc.cited <= i
        ELSE ~Rejected(CountErrors)

C11_Witness ==
    /\ Rejected({"too_many_manual_numbers"})
    /\ buy.result.exc.cited = 2
    /\ Cardinality(ManualOverflow) = 2

(***************************************************************************)
(* DhLotteryCoordinator.  An update (_async_update_data) is a coroutine:   *)
(* it reads the clock once, and suspends in every fetch it issues.  Of an  *)
(* update the model keeps: `now', the timestamps found when it began       *)
(* (before), every staleness decision it took (decisions: the aggregate,   *)
(* the timestamp seen and whether a fetch was issued), how it ended        *)
(* (outcome), whether async_clear_refresh ran since it began (cleared) and *)
(* whether it is the first update begun after an async_clear_refresh       *)
(* (forced).                                                               *)
(***************************************************************************)
\* const.py: the refresh intervals, in steps of the clock
BalanceInterval == 1

AccumulatedPrizeInterval == 2

Lotto645Interval == 2

\* how a fetch of an update ends: its value, a DhLotteryError, or the timeout
\* of async_timeout.timeout(10)
FetchOutcomes == {"ok", "DhLotteryError", "TimeoutError"}

Decision(agg, seen, fetch) == [agg |-> agg, seen |-> seen, fetch |-> fetch]

check_update_balance_late(c, now) ==
    IF c.balance_last_updated = NoTime THEN TRUE
    ELSE now - c.balance_last_updated > BalanceInterval

check_update_balance(c, now) ==
    IF c.balance_last_updated = NoTime THEN TRUE
    ELSE now - c.balance_last_updated >= BalanceInterval

check_update_accumulated_prize(c, now) ==
    IF c.accumulated_prize_last_updated = NoTime THEN TRUE
    ELSE now - c.accumulated_prize_last_updated >= AccumulatedPrizeInterval

\* the update ends: it returns its dict, or raises
update_end(c, outcome) == [c EXCEPT !.pc = "done", !.outcome = outcome]

\* the poller has taken the outcome of the update: what the model kept of the
\* update is dropped
update_taken(c, idle) ==
    [c EXCEPT !.pc = "idle", !.now = idle.now, !.before = idle.before,
              !.decisions = idle.decisions, !.outcome = idle.outcome, !.forced = idle.forced]

\* `except DhLotteryError' turns the error into UpdateFailed; a TimeoutError passes
update_except(c, out) ==
    update_end(c, IF out = "DhLotteryError" THEN "UpdateFailed" ELSE out)

\* the first lines of an update, shared by the two coordinators
update_enter(c, now, before) ==
    [c EXCEPT !.now = now, !.before = before, !.decisions = <<>>, !.outcome = "none",
              !.forced = c.cleared, !.cleared = FALSE]

\* the accumulated-prize part of the update, up to its fetch
acct_prize(c) ==
    LET stale == check_update_accumulated_prize(c, c.now)
        c1 == [c EXCEPT !.decisions =
                  Append(@, Decision("accumulated_prize", c.accumulated_prize_last_updated, stale))]
    IN  IF stale THEN [c1 EXCEPT !.pc = "accumulated_prize"] ELSE update_end(c1, "ok")

\* the update from its start to its first fetch
acct_begin(c, now) ==
    LET c0 == update_enter(c, now, <<c.balance_last_updated, c.accumulated_prize_last_updated>>)
        stale == check_update_balance(c0, now)
        c1 == [c0 EXCEPT !.decisions = Append(@, Decision("balance", c.balance_last_updated, stale))]
    IN  IF stale THEN [c1 EXCEPT !.pc = "balance"] ELSE acct_prize(c1)

\* async_get_balance returns
acct_on_balance(c, out) ==
    IF out = "ok" THEN acct_prize([c EXCEPT !.balance_last_updated = c.now])
    ELSE update_except(c, out)

\* async_get_accumulated_prize returns, the timestamp being set whatever it brings
acct_on_prize_stamp_first(c, out) ==
    IF out = "ok" THEN update_end([c EXCEPT !.accumulated_prize_last_updated = c.now], "ok")
    ELSE update_except([c EXCEPT !.accumulated_prize_last_updated = c.now], out)

\* async_get_accumulated_prize returns
acct_on_prize(c, out) ==
    IF out = "ok" THEN update_end([c EXCEPT !.accumulated_prize_last_updated = c.now], "ok")
    ELSE update_except(c, out)

\* async_clear_refresh, up to its await of async_request_refresh
acct_clear(c) ==
    [c EXCEPT !.balance_last_updated = NoTime, !.accumulated_prize_last_updated = NoTime,
              !.cleared = TRUE]

\* an update of c that began at `now' is suspended in one of its fetches
Suspended(c) == c.pc \notin {"idle", "done"}

\* no update has ended without the poller having taken its outcome: the return
\* of _async_update_data and the poller's taking of it are one step of the
\* event loop, so nothing else runs between them
Taken == acct.pc # "done" /\ tkt.pc # "done"

\* time passes. A fetch is given up after 10 seconds (async_timeout.timeout(10)),
\* so an update is suspended for less than one step of the clock and sees the
\* clock advance at most once
Elapse(times) ==
    /\ Taken
    /\ clock + 1 \in times
    /\ Suspended(acct) => acct.now = clock
    /\ Suspended(tkt) => tkt.now = clock
    /\ clock' = clock + 1
    /\ UNCHANGED <<clientVars, acct, tkt, svc, rk, pad, buys, hist>>

\* the steps of the clock from the start
Advance == Elapse(StartTime..(StartTime + MaxElapsed))

\* the poller starts an update of the account coordinator; updates of one
\* coordinator do not overlap
AccountUpdate ==
    /\ Taken
    /\ acct.pc = "idle"
    /\ acct' = acct_begin(acct, clock)
    /\ UNCHANGED <<clientVars, clock, tkt, svc, rk, pad, buys, hist>>

AccountBalanceReturn ==
    /\ Taken
    /\ acct.pc = "balance"
    /\ \E out \in FetchOutcomes : acct' = acct_on_balance(acct, out)
    /\ UNCHANGED <<clientVars, clock, tkt, svc, rk, pad, buys, hist>>

AccountPrizeReturn ==
    /\ Taken
    /\ acct.pc = "accumulated_prize"
    /\ \E out \in FetchOutcomes : acct' = acct_on_prize(acct, out)
    /\ UNCHANGED <<clientVars, clock, tkt, svc, rk, pad, buys, hist>>

AccountUpdateEnd ==
    /\ acct.pc = "done"
    /\ acct' = update_taken(acct, IdleAcct)
    /\ UNCHANGED <<clientVars, clock, tkt, svc, rk, pad, buys, hist>>

\* the refresh service calls async_clear_refresh of the account coordinator
AccountClear ==
    /\ Taken
    /\ svc.pc = "idle"
    /\ acct' = acct_clear(acct)
    /\ UNCHANGED <<clientVars, clock, tkt, svc, rk, pad, buys, hist>>

NextAccount ==
    \/ Advance \/ AccountUpdate \/ AccountBalanceReturn \/ AccountPrizeReturn
    \/ AccountUpdateEnd \/ AccountClear

SpecAccount == Init /\ [][NextAccount]_vars

(***************************************************************************)
(* DhLotto645Coordinator.  Its update fetches the latest round and the     *)
(* winning numbers of that round, calls lottery_refresh_func (the          *)
(* async_clear_refresh of the account coordinator) when a purchase history *)
(* was fetched before, and then fetches the purchase history.              *)
(***************************************************************************)
AnnounceFrom == 20 * 60 + 40    \* datetime.time(20, 40), in minutes of the day

AnnounceUntil == 21 * 60 + 30   \* datetime.time(21, 30)

\* self.winning_dict.get(round_no): the draws cached for the round, none or one
cached(c, round_no) == {d \in c.winning_dict : d.round_no = round_no}

check_update_winning_numbers(c, now) ==
    IF c.latest_winning_numbers = NoDraw THEN TRUE
    ELSE /\ Weekday(now) = Saturday
         /\ AnnounceFrom <= MinuteOfDay(now)
         /\ MinuteOfDay(now) <= AnnounceUntil
         /\ strftime(now) # c.latest_winning_numbers.draw_date

check_update_buy_history(c, now) ==
    IF c.buy_history_last_updated = NoTime THEN TRUE
    ELSE now - c.buy_history_last_updated >= Lotto645Interval

\* the purchase-history part of the update, up to its fetch
tkt_history(c) ==
    LET stale == check_update_buy_history(c, c.now)
        c1 == [c EXCEPT !.decisions =
                  Append(@, Decision("buy_history", c.buy_history_last_updated, stale))]
    IN  IF stale THEN [c1 EXCEPT !.pc = "buy_history"] ELSE update_end(c1, "ok")

\* the update from its start to its first fetch
tkt_begin(c, now) ==
    LET c0 == update_enter(c, now, <<c.latest_winning_numbers, c.buy_history_last_updated>>)
        stale == check_update_winning_numbers(c0, now)
        c1 == [c0 EXCEPT !.decisions =
                  Append(@, Decision("winning_numbers", c.latest_winning_numbers.draw_date, stale))]
    IN  IF stale THEN [c1 EXCEPT !.pc = "latest_round"] ELSE tkt_history(c1)

\* after lottery_refresh_func, or without it: the history timestamp is reset
tkt_after_refresh(c) == tkt_history([c EXCEPT !.buy_history_last_updated = NoTime])

\* _async_get_winning_numbers returned: the sibling is refreshed every time
tkt_after_winning_always(c, draw) ==
    [c EXCEPT !.latest_winning_numbers = draw, !.pc = "sibling"]

\* _async_get_winning_numbers returned the latest draw
tkt_after_winning(c, draw) ==
    LET c1 == [c EXCEPT !.latest_winning_numbers = draw]
    IN  IF c.buy_history_last_updated # NoTime THEN [c1 EXCEPT !.pc = "sibling"]
        ELSE tkt_after_refresh(c1)

\* async_get_latest_round_no returns; _async_get_winning_numbers looks in winning_dict
tkt_on_latest_round(c, out, draw) ==
    IF out # "ok" THEN update_except(c, out)
    ELSE IF cached(c, draw.round_no) # {}
         THEN tkt_after_winning(c, CHOOSE d \in cached(c, draw.round_no) : TRUE)
    ELSE [c EXCEPT !.pc = "round_info", !.round_no = draw.round_no]

\* async_get_round_info(round_no) returns the draw: it is put into winning_dict
tkt_on_round_info(c, out, draw) ==
    IF out # "ok" THEN update_except(c, out)
    ELSE tkt_after_winning(
             [c EXCEPT !.winning_dict = (@ \ cached(c, draw.round_no)) \cup {draw}], draw)

\* lottery_refresh_func returns, or the timeout ends the wait for it
tkt_on_sibling(c, out) ==
    IF out # "ok" THEN update_except(c, out) ELSE tkt_after_refresh(c)

\* _async_get_buy_history_this_week returns
tkt_on_history(c, out) ==
    IF out = "ok" THEN update_end([c EXCEPT !.buy_history_last_updated = c.now], "ok")
    ELSE update_except(c, out)

\* async_get_rank of the items of the history: `rounds' are the rounds of the
\* items whose result names a prize; the draw of a round that is not in
\* winning_dict is fetched
tkt_rank(c, rounds) ==
    IF rounds = <<>> \/ cached(c, Head(rounds)) # {} THEN tkt_on_history(c, "ok")
    ELSE [c EXCEPT !.pc = "rank_info", !.round_no = Head(rounds)]

\* lotto_645.async_get_buy_history_this_week returns
tkt_on_buy_list(c, out, rounds) ==
    IF out = "ok" THEN tkt_rank(c, rounds) ELSE update_except(c, out)

\* winning_dict keeping only the draw fetched last
tkt_on_rank_info_one_entry(c, out, draw) ==
    IF out # "ok" THEN update_except(c, out)
    ELSE tkt_on_history([c EXCEPT !.winning_dict = {draw}], "ok")

\* async_get_round_info(item.round_no) of async_get_rank returns
tkt_on_rank_info(c, out, draw) ==
    IF out # "ok" THEN update_except(c, out)
    ELSE tkt_on_history(
             [c EXCEPT !.winning_dict = (@ \ cached(c, draw.round_no)) \cup {draw}], "ok")

\* async_clear_refresh, up to its await of async_request_refresh
tkt_clear(c) ==
    [c EXCEPT !.latest_winning_numbers = NoDraw, !.buy_history_last_updated = NoTime,
              !.winning_dict = {}, !.cleared = TRUE]

\* a step of the ticket update; entering lottery_refresh_func runs the
\* async_clear_refresh of the account coordinator
TicketStep(new) ==
    /\ tkt' = new
    /\ acct' = IF new.pc = "sibling" /\ tkt.pc # "sibling" THEN acct_clear(acct) ELSE acct
    /\ UNCHANGED <<clientVars, clock, svc, rk, pad, buys, hist>>

TicketUpdate ==
    /\ Taken
    /\ tkt.pc = "idle"
    /\ TicketStep(tkt_begin(tkt, clock))

TicketLatestRoundReturn(draws) ==
    /\ Taken
    /\ tkt.pc = "latest_round"
    /\ \E out \in FetchOutcomes, draw \in draws : TicketStep(tkt_on_latest_round(tkt, out, draw))

TicketRoundInfoReturn(draws) ==
    /\ Taken
    /\ tkt.pc = "round_info"
    /\ \E out \in FetchOutcomes, draw \in {d \in draws : d.round_no = tkt.round_no} :
         TicketStep(tkt_on_round_info(tkt, out, draw))

TicketSiblingReturn ==
    /\ Taken
    /\ tkt.pc = "sibling"
    /\ \E out \in {"ok", "TimeoutError"} : TicketStep(tkt_on_sibling(tkt, out))

TicketHistoryReturn(histories) ==
    /\ Taken
    /\ tkt.pc = "buy_history"
    /\ \E out \in FetchOutcomes, rounds \in histories :
         TicketStep(tkt_on_buy_list(tkt, out, rounds))

TicketRankInfoReturn(draws) ==
    /\ Taken
    /\ tkt.pc = "rank_info"
    /\ \E out \in FetchOutcomes, draw \in {d \in draws : d.round_no = tkt.round_no} :
         TicketStep(tkt_on_rank_info(tkt, out, draw))

TicketUpdateEnd ==
    /\ tkt.pc = "done"
    /\ TicketStep(update_taken(tkt, IdleTkt))

\* the refresh service calls async_clear_refresh of the ticket coordinator
TicketClear ==
    /\ Taken
    /\ svc.pc = "idle"
    /\ TicketStep(tkt_clear(tkt))

\* the steps of the ticket coordinator against a server that reports `draws'
TicketRun(draws, histories) ==
    \/ TicketUpdate \/ TicketLatestRoundReturn(draws) \/ TicketRoundInfoReturn(draws)
    \/ TicketSiblingReturn \/ TicketHistoryReturn(histories) \/ TicketUpdateEnd \/ TicketClear

\* a purchase history without an item that names a prize
NoPrize == {<<>>}

NextTicket == Advance \/ TicketRun(Draws, NoPrize)

SpecTicket == Init /\ [][NextTicket]_vars

NextCoordinators == NextAccount \/ NextTicket

SpecCoordinators == Init /\ [][NextCoordinators]_vars

(***************************************************************************)
(* Vocabulary of the coordinator properties.                               *)
(***************************************************************************)
TimedAggregates == {"balance", "accumulated_prize", "buy_history"}

Aggregates == TimedAggregates \cup {"winning_numbers"}

\* the coordinator that tracks the aggregate
CoordOf(agg) == IF agg \in {"balance", "accumulated_prize"} THEN acct ELSE tkt

IntervalOf(agg) ==
    CASE agg = "balance" -> BalanceInterval
      [] agg = "accumulated_prize" -> AccumulatedPrizeInterval
      [] agg = "buy_history" -> Lotto645Interval

\* the staleness timestamp of the aggregate (of the winning numbers: the draw date cached)
StampOf(agg) ==
    CASE agg = "balance" -> acct.balance_last_updated
      [] agg = "accumulated_prize" -> acct.accumulated_prize_last_updated
      [] agg = "buy_history" -> tkt.buy_history_last_updated
      [] agg = "winning_numbers" -> tkt.latest_winning_numbers.draw_date

\* the same when the coordinator's present update began
StampBefore(agg) ==
    CASE agg = "balance" -> acct.before[1]
      [] agg = "accumulated_prize" -> acct.before[2]
      [] agg = "buy_history" -> tkt.before[2]
      [] agg = "winning_numbers" -> tkt.before[1].draw_date

\* the present update came to the staleness decision of the aggregate
Reached(agg) == \E i \in DOMAIN CoordOf(agg).decisions : CoordOf(agg).decisions[i].agg = agg

\* the present update issued the fetch of the aggregate
Fetched(agg) ==
    \E i \in DOMAIN CoordOf(agg).decisions :
        /\ CoordOf(agg).decisions[i].agg = agg
        /\ CoordOf(agg).decisions[i].fetch

\* no async_clear_refresh on the coordinator since its present update began
Undisturbed(agg) == ~CoordOf(agg).cleared

\* the aggregate was refreshed before and is younger than its interval
Young(agg) ==
    /\ StampBefore(agg) # NoTime
    /\ CoordOf(agg).now - StampBefore(agg) < IntervalOf(agg)

\* C12 as stated: an update that comes to the decision of an aggregate, with
\* no clearAndRefresh since it began, fetches the aggregate exactly when the
\* aggregate was never refreshed or its last refresh is at least the interval
\* ago.
C12_FetchedByAgeOnly ==
    \A agg \in TimedAggregates :
        (Reached(agg) /\ Undisturbed(agg)) => (Fetched(agg) <=> ~Young(agg))

\* C12, amended: an update that comes to the decision of an aggregate, with no
\* clearAndRefresh since it began, fetches the aggregate exactly when the
\* aggregate was never refreshed, or its last refresh is at least the interval
\* ago, or the aggregate is the purchase history and the same update has
\* refreshed the winning numbers before.
C12_FetchedWhenStale ==
    \A agg \in TimedAggregates :
        (Reached(agg) /\ Undisturbed(agg)) =>
            (Fetched(agg) <=>
                (~Young(agg) \/ (agg = "buy_history" /\ Fetched("winning_numbers"))))

C12_Witness ==
    /\ tkt.pc = "done" /\ tkt.outcome = "ok"
    /\ Undisturbed("buy_history") /\ Young("buy_history") /\ Fetched("buy_history")
    /\ acct.pc = "idle" /\ acct.accumulated_prize_last_updated # NoTime
    /\ acct.balance_last_updated > acct.accumulated_prize_last_updated

\* C13: the first update begun after an async_clear_refresh of its coordinator
\* finds every aggregate it comes to stale and issues its fetch, whatever the
\* coordinator was doing when async_clear_refresh was called.
C13_ForcedUpdateFetchesAll ==
    \A agg \in Aggregates : (CoordOf(agg).forced /\ Reached(agg)) => Fetched(agg)

\* the coordinator's update ended with UpdateFailed, and no async_clear_refresh
\* touched the coordinator since the update began
FailedUpdate(c) == c.pc = "done" /\ c.outcome = "UpdateFailed" /\ ~c.cleared

\* the aggregate whose fetch raised: the one of the last decision
Failing(c) == c.decisions[Len(c.decisions)].agg

ServiceRequests == {<<>>} \cup FewRequests

\* the coordinators after their first refresh
InitService ==
    /\ loggedIn = TRUE
    /\ lock = RLockFree
    /\ call = [c \in Callers |-> IdleCall]
    /\ buy = IdleBuy
    /\ clock = StartTime
    /\ acct = [IdleAcct EXCEPT !.balance_last_updated = StartTime,
                               !.accumulated_prize_last_updated = StartTime]
    /\ tkt \in {[IdleTkt EXCEPT !.latest_winning_numbers = d, !.winning_dict = {d},
                                !.buy_history_last_updated = StartTime] : d \in Draws}
    /\ svc = IdleSvc
    /\ rk = IdleRank
    /\ pad = IdlePad
    /\ buys = [t \in Tasks |-> IdleBuy]
    /\ hist = IdleHist

\* a service whose finally block refreshes only after a purchase that succeeded
svc_on_buy_success_only(s, result) ==
    IF result.ok
    THEN [s EXCEPT !.pc = "lottery_coord", !.response = "success",
                   !.log = @ \o <<"returned", "lottery_coord.async_clear_refresh">>]
    ELSE [s EXCEPT !.pc = "done", !.response = "fail", !.log = Append(@, "raised")]

\* async_buy has ended: the response is made, and the finally block calls
\* async_clear_refresh of the account coordinator
svc_on_buy(s, result) ==
    [s EXCEPT !.pc = "lottery_coord",
              !.response = IF result.ok THEN "success" ELSE "fail",
              !.log = @ \o <<IF result.ok THEN "returned" ELSE "raised",
                             "lottery_coord.async_clear_refresh">>]

\* the service is called: the slots are built and async_buy runs to its first await
ServiceCall(times, requests) ==
    /\ svc.pc = "idle"
    /\ BuyCall(times, requests)
    /\ svc' = [IdleSvc EXCEPT !.pc = "async_buy", !.log = <<"async_buy">>]
    /\ UNCHANGED <<clock, acct, tkt, rk, pad, buys, hist>>

ServiceBuyEnded ==
    /\ svc.pc = "async_buy"
    /\ buy.pc = "done"
    /\ svc' = svc_on_buy(svc, buy.result)
    /\ acct' = IF svc'.pc = "lottery_coord" THEN acct_clear(acct) ELSE acct
    /\ UNCHANGED <<clientVars, clock, tkt, rk, pad, buys, hist>>

\* the refresh of the account coordinator is over: async_clear_refresh of the
\* ticket coordinator
ServiceAccountRefreshed ==
    /\ svc.pc = "lottery_coord"
    /\ svc' = [svc EXCEPT !.pc = "lotto_645_coord",
                          !.log = Append(@, "lotto_645_coord.async_clear_refresh")]
    /\ tkt' = tkt_clear(tkt)
    /\ UNCHANGED <<clientVars, clock, acct, rk, pad, buys, hist>>

\* the refresh of the ticket coordinator is over: the service call completes
ServiceTicketRefreshed ==
    /\ svc.pc = "lotto_645_coord"
    /\ svc' = [svc EXCEPT !.pc = "done", !.log = Append(@, "completed")]
    /\ UNCHANGED <<clientVars, clock, acct, tkt, rk, pad, buys, hist>>

\* the next call of the service can begin
ServiceEnd ==
    /\ svc.pc = "done"
    /\ svc' = IdleSvc
    /\ buy' = IdleBuy
    /\ UNCHANGED <<loggedIn, lock, call, clock, acct, tkt, rk, pad, buys, hist>>

NextService ==
    \/ ServiceCall(FewTimes, ServiceRequests)
    \/ BuyRun
    \/ ServiceBuyEnded
    \/ ServiceAccountRefreshed
    \/ ServiceTicketRefreshed
    \/ ServiceEnd

SpecService == InitService /\ [][NextService]_vars

\* C15: a call of the purchase service completes only after async_buy has
\* ended, with a receipt or with an error, and after async_clear_refresh has
\* then been called on the account coordinator and, after it, on the ticket
\* coordinator: the timestamps of both coordinators are reset.
C15_RefreshAfterEveryAttempt ==
    /\ svc.pc \in {"lottery_coord", "lotto_645_coord", "done"} =>
          /\ buy.pc = "done"
          /\ acct.cleared
          /\ StampOf("balance") = NoTime /\ StampOf("accumulated_prize") = NoTime
    /\ svc.pc \in {"lotto_645_coord", "done"} =>
          /\ tkt.cleared
          /\ tkt.latest_winning_numbers = NoDraw /\ StampOf("buy_history") = NoTime
    /\ svc.pc = "done" =>
          svc.log = <<"async_buy", IF buy.result.ok THEN "returned" ELSE "raised",
                      "lottery_coord.async_clear_refresh",
                      "lotto_645_coord.async_clear_refresh", "completed">>

C15_Witness ==
    /\ svc.pc = "done"
    /\ ~buy.result.ok
    /\ PostIssued
    /\ Len(svc.log) = 5

(***************************************************************************)
(* calculate_rank.  A ticket is 6 different numbers of 1..MaxNumber; the   *)
(* draws are 6 different numbers and a bonus number that is not one of     *)
(* them.  MaxNumber (45 in the lottery) is kept small: 6 of 10 numbers     *)
(* already overlap a draw in 2 to 6 places, and the shifted draws bring    *)
(* the overlaps 0 and 1.                                                   *)
(***************************************************************************)
MaxNumber == 10

Numbers == 1..MaxNumber

\* the tickets: every ascending list of 6 numbers
Tickets == {SortedSeq(S) : S \in {T \in SUBSET Numbers : Cardinality(T) = 6}}

\* the draws, as the round info gives them: numbers in drawing order, and the bonus
WinningDraws ==
    { [numbers |-> <<3, 1, 4, 6, 2, 5>>, bonus_num |-> 7],
      [numbers |-> <<1, 2, 3, 4, 5, 6>>, bonus_num |-> MaxNumber],
      [numbers |-> <<11, 12, 13, 14, 15, 1>>, bonus_num |-> 2],
      [numbers |-> <<11, 12, 13, 14, 15, 16>>, bonus_num |-> 1] }

\* same_cnt: the winning numbers found among my_numbers
RECURSIVE same_cnt(_, _)
same_cnt(my_numbers, win_numbers) ==
    IF win_numbers = <<>> THEN 0
    ELSE (IF Head(win_numbers) \in SeqRange(my_numbers) THEN 1 ELSE 0)
         + same_cnt(my_numbers, Tail(win_numbers))

\* calculate_rank without the bonus number
calculate_rank_no_bonus(my_numbers, win_numbers, bonus) ==
    LET n == same_cnt(my_numbers, win_numbers)
    IN  IF n = 6 THEN 1
        ELSE IF n = 5 THEN 3
        ELSE IF n = 4 THEN 4
        ELSE IF n = 3 THEN 5
        ELSE 0

calculate_rank(my_numbers, win_numbers, bonus) ==
    LET n == same_cnt(my_numbers, win_numbers)
    IN  IF n = 6 THEN 1
        ELSE IF n = 5 /\ bonus \in SeqRange(my_numbers) THEN 2
        ELSE IF n = 5 THEN 3
        ELSE IF n = 4 THEN 4
        ELSE IF n = 3 THEN 5
        ELSE 0

\* the rank of a ticket is asked for
RankCall ==
    /\ rk.pc = "idle"
    /\ \E t \in Tickets, w \in WinningDraws :
          rk' = [pc |-> "done", my_numbers |-> t, win_numbers |-> w.numbers,
                 bonus |-> w.bonus_num,
                 rank |-> calculate_rank(t, w.numbers, w.bonus_num)]
    /\ UNCHANGED <<clientVars, clock, acct, tkt, svc, pad, buys, hist>>

RankReturn ==
    /\ rk.pc = "done"
    /\ rk' = IdleRank
    /\ UNCHANGED <<clientVars, clock, acct, tkt, svc, pad, buys, hist>>

NextRank == RankCall \/ RankReturn

SpecRank == Init /\ [][NextRank]_vars

\* how many of the ticket's numbers are winning numbers
Matches == Cardinality(SeqRange(rk.my_numbers) \cap SeqRange(rk.win_numbers))

BonusHit == rk.bonus \in SeqRange(rk.my_numbers)

\* C16: the rank is 1 for 6 matches, 2 for 5 matches with the bonus number on
\* the ticket, 3 for 5 matches without it, 4 for 4 matches, 5 for 3 matches and
\* 0 otherwise; it lies in 0..5.
C16_RankTable ==
    rk.pc = "done" =>
        /\ rk.rank \in 0..5
        /\ rk.rank = 1 <=> Matches = 6
        /\ rk.rank = 2 <=> (Matches = 5 /\ BonusHit)
        /\ rk.rank = 3 <=> (Matches = 5 /\ ~BonusHit)
        /\ rk.rank = 4 <=> Matches = 4
        /\ rk.rank = 5 <=> Matches = 3
        /\ rk.rank = 0 <=> Matches < 3

C16_Witness == rk.pc = "done" /\ rk.rank = 2 /\ Matches = 5 /\ BonusHit

\* the step ends the async_login that caller c awaits
LoginEnds(c) == call[c].pc = "login" /\ call'[c].pc # "login"

\* what that async_login met: the last entry of the caller's trace after the step
LoginMet(c) == call'[c].trace[Len(call'[c].trace)].resp

\* C17: async_login returns normally (the caller goes on to its retry) only
\* when the final response has status 200 and the success marker in its URL,
\* and logged_in is then true; when it ends in any other way logged_in is false
\* afterwards, whatever it was before.
C17_LoginDecidesFlag ==
    [][\A c \in Callers :
          LoginEnds(c) =>
              /\ call'[c].pc = "get" <=> LoginSucceeded(LoginMet(c))
              /\ loggedIn' <=> LoginSucceeded(LoginMet(c))]_vars

\* a response with a JSON body and status 200 OK, but without the `data' key
LacksData(resp) ==
    /\ resp.conn /\ resp.json /\ resp.status = 200 /\ resp.reason = "OK"
    /\ "data" \notin DOMAIN resp.body

\* the caller's async_get_with_login answered its first GET with a login
Relogged(c) == Len(call[c].trace) >= 2 /\ call[c].trace[2].op = "login"

GetEnds(c) == call[c].pc = "get" /\ call'[c].pc \in {"login", "done"}

GetMet(c) == call'[c].trace[Len(call'[c].trace)].resp

\* C19: logged_in becomes false in the step in which a GET of
\* async_get_with_login meets an API-level failure while it is true, that is
\* before the re-login starts; it becomes true only in a step that ends a
\* successful login; a GET that meets a network error leaves it unchanged.
C19_FlagFollowsSession ==
    [][/\ \A c \in Callers :
             (GetEnds(c) /\ ApiFailure(GetMet(c)) /\ loggedIn) => ~loggedIn'
       /\ (~loggedIn /\ loggedIn') =>
             \E c \in Callers : LoginEnds(c) /\ LoginSucceeded(LoginMet(c))
       /\ \A c \in Callers :
             (GetEnds(c) /\ ~GetMet(c).conn) => loggedIn' = loggedIn]_vars

\* the purchase POST was answered with a JSON body that holds a result code
Coded == buy.reply # NoBody /\ buy.reply.conn /\ buy.reply.json
         /\ "result" \in DOMAIN buy.reply.body
         /\ "resultCode" \in DOMAIN buy.reply.body.result

SuccessCode == Coded /\ buy.reply.body.result.resultCode = "100"

OtherCode == Coded /\ buy.reply.body.result.resultCode # "100"

\* the reply holds what parse_result reads
ReceiptFields == {"buyRound", "arrGameChoiceNum"} \subseteq DOMAIN buy.reply.body.result

\* async_buy returned the receipt of the reply, whole
WholeReceipt ==
    /\ buy.result.ok
    /\ buy.result.data.round_no = buy.reply.body.result.buyRound
    /\ Len(buy.result.data.games) = Len(buy.reply.body.result.arrGameChoiceNum)

\* async_buy raised DhLotto645Error and returned nothing
PurchaseError == ~buy.result.ok /\ buy.result.data = NoData
                 /\ buy.result.exc.type = "DhLotto645Error"

\* C20 as stated: async_buy returns a receipt exactly when the reply to the
\* purchase POST carries result code "100"; for any other code it raises
\* DhLotto645Error with the server's message and returns no receipt.
C20_ReceiptIffSuccessCode ==
    buy.pc = "done" =>
        /\ buy.result.ok <=> SuccessCode
        /\ SuccessCode => WholeReceipt
        /\ OtherCode => PurchaseError
        /\ (OtherCode /\ "resultMsg" \in DOMAIN buy.reply.body.result) =>
              buy.result.exc.msg = buy.reply.body.result.resultMsg

\* C20, amended: async_buy returns a receipt exactly when the reply carries
\* result code "100" and the receipt can be read from it, and the receipt is
\* then whole; a reply with code "100" whose receipt cannot be read, and a
\* reply with any other code, raise DhLotto645Error (with the server's message
\* when the reply has one) and return nothing.
C20_ReceiptIffReadable ==
    buy.pc = "done" =>
        /\ buy.result.ok <=> (SuccessCode /\ ReceiptFields)
        /\ buy.result.ok => WholeReceipt
        /\ (SuccessCode /\ ~ReceiptFields) => PurchaseError
        /\ OtherCode => PurchaseError
        /\ (OtherCode /\ "resultMsg" \in DOMAIN buy.reply.body.result) =>
              buy.result.exc.msg = buy.reply.body.result.resultMsg

C20_Witness == buy.pc = "done" /\ SuccessCode /\ ~ReceiptFields /\ PurchaseError


(***************************************************************************)
(* Errors of async_get_with_login other than DhAPIError                    *)
(***************************************************************************)
\* a GET that ended in an error other than DhAPIError: no connection, a body
\* that is not JSON, or a 200 response without the `data' key
OtherFailure(resp) == ~ApiFailure(resp) /\ ~GetSuccess(resp)

\* the error async_get raises for such a response
OtherError(resp) ==
    IF resp.conn /\ resp.json
    THEN Raise(Exc("DhLotteryError", "bad_response_data"))
    ELSE Raise(Exc("DhLotteryError", "page_not_fetched"))

\* C21: in async_get_with_login, a GET that fails with an error other than
\* DhAPIError is the last event of the call (no login, no second GET) and its
\* error is what the caller gets; a login that fails is the last event of the
\* call too (no retry GET) and its error is what the caller gets.
C21_OtherErrorsPropagate ==
    \A c \in Callers :
        LET f == call[c]
            tr == f.trace
        IN  \A i \in DOMAIN tr :
              /\ (tr[i].op = "get" /\ OtherFailure(tr[i].resp)) =>
                    /\ i = Len(tr)
                    /\ f.pc = "done"
                    /\ f.result = OtherError(tr[i].resp)
                    /\ \A j \in 1..(i - 1) : tr[j].op = "login" => i = 3
              /\ (tr[i].op = "login" /\ ~LoginSucceeded(tr[i].resp)) =>
                    /\ i = Len(tr)
                    /\ f.pc = "done"
                    /\ ~f.result.ok
                    /\ f.result.exc.type =
                          IF tr[i].resp.key /\ tr[i].resp.posted
                          THEN "DhLotteryLoginError" ELSE "DhLotteryError"
                    /\ f.result.exc.msg # "login_or_api_failed"

C21_Witness ==
    \E c, d \in Callers :
        /\ call[c].pc = "done" /\ Len(call[c].trace) = 1
        /\ ~call[c].trace[1].resp.conn
        /\ call[c].result = Raise(Exc("DhLotteryError", "page_not_fetched"))
        /\ call[d].pc = "done" /\ Len(call[d].trace) = 2
        /\ call[d].trace[2].op = "login" /\ ~call[d].trace[2].resp.key
        /\ call[d].result = Raise(Exc("DhLotteryError", "rsa_key_not_fetched"))

(***************************************************************************)
(* The ticket update after its winning numbers have been fetched           *)
(***************************************************************************)
\* the step stores the winning numbers the update fetched (coordinator.py l.143)
WinningStored ==
    /\ tkt.pc \in {"latest_round", "round_info"}
    /\ \/ tkt'.pc \in {"sibling", "buy_history"}
       \/ tkt'.pc = "done" /\ tkt'.outcome = "ok"

\* the step calls lottery_refresh_func: the account coordinator is cleared
SiblingTriggered ==
    /\ tkt'.pc = "sibling"
    /\ acct'.cleared
    /\ acct'.balance_last_updated = NoTime
    /\ acct'.accumulated_prize_last_updated = NoTime

\* the step leaves the account coordinator alone
SiblingSpared == tkt'.pc # "sibling" /\ acct' = acct

\* the step comes to line 147: the winning numbers are stored and no refresh of
\* the sibling is called for, or the refresh of the sibling has returned
PastRefresh ==
    \/ WinningStored /\ tkt'.pc # "sibling"
    \/ tkt.pc = "sibling" /\ tkt'.pc # "sibling" /\ tkt'.outcome # "TimeoutError"

\* the purchase-history timestamp was set when the winning numbers were stored
HistoryStamped == tkt.buy_history_last_updated # NoTime

\* C22 as stated: when an update has fetched the winning numbers, the forced
\* refresh of the account coordinator is triggered exactly when the purchase
\* history was refreshed before; then the purchase-history timestamp is reset
\* and the update ends, leaving the purchase history to the update after it.
C22_HistoryLeftToNextUpdate ==
    [][/\ WinningStored => IF HistoryStamped THEN SiblingTriggered ELSE SiblingSpared
       /\ PastRefresh => /\ tkt'.buy_history_last_updated = NoTime
                         /\ tkt'.pc = "done"]_vars

\* C22, amended: when an update has fetched the winning numbers, the forced
\* refresh of the account coordinator is triggered exactly when the
\* purchase-history timestamp is set at that moment; once that refresh has
\* returned, or at once without it, the timestamp is reset and the SAME update
\* goes on to fetch the purchase history, whatever its age; if the wait for
\* the refresh of the sibling times out, the update ends with the timestamp
\* as it was.
C22_HistoryFetchedInSameUpdate ==
    [][/\ WinningStored => IF HistoryStamped THEN SiblingTriggered ELSE SiblingSpared
       /\ PastRefresh => /\ tkt'.buy_history_last_updated = NoTime
                         /\ tkt'.pc = "buy_history"
                         /\ tkt'.now = tkt.now
                         /\ tkt'.decisions[Len(tkt'.decisions)] =
                               [agg |-> "buy_history", seen |-> NoTime, fetch |-> TRUE]
       /\ (tkt.pc = "sibling" /\ tkt'.pc = "done") =>
             /\ tkt'.outcome = "TimeoutError"
             /\ tkt'.buy_history_last_updated = tkt.buy_history_last_updated]_vars

\* the refresh of the sibling has been triggered and has returned, and the
\* update is fetching a purchase history that was younger than its interval
C22_Witness ==
    /\ tkt.pc = "buy_history" /\ ~tkt.cleared
    /\ tkt.decisions[1].fetch
    /\ tkt.before[2] # NoTime /\ tkt.now - tkt.before[2] < 2
    /\ tkt.buy_history_last_updated = NoTime
    /\ acct.cleared

(***************************************************************************)
(* The announcement window.  The ticket coordinator is started on the      *)
(* Friday evening or around the Saturday window, against a server that     *)
(* writes ltRflYmd with dashes or without.                                 *)
(***************************************************************************)
Friday == DrawDay - 1

\* 20:30 to 20:50 of the Friday, 20:30 to 21:40 of the Saturday of the draw
WindowTimes ==
    {Friday * StepsPerDay + s : s \in 123..125} \cup {DrawDay * StepsPerDay + s : s \in 123..130}

AnyDraws == DrawsAs("-") \cup DrawsAs("")

InitWindow ==
    /\ loggedIn = FALSE
    /\ lock = RLockFree
    /\ call = [c \in Callers |-> IdleCall]
    /\ buy = IdleBuy
    /\ clock \in WindowTimes
    /\ acct = IdleAcct
    /\ tkt = IdleTkt
    /\ svc = IdleSvc
    /\ rk = IdleRank
    /\ pad = IdlePad
    /\ buys = [t \in Tasks |-> IdleBuy]
    /\ hist = IdleHist

NextWindow == Elapse(WindowTimes) \/ TicketRun(AnyDraws, NoPrize)

SpecWindow == InitWindow /\ [][NextWindow]_vars

\* the update began with a draw cached
DrawCached == tkt.decisions # <<>> /\ tkt.before[1] # NoDraw

\* the update began on a Saturday between 20:40 and 21:30, both included
InWindow ==
    /\ Weekday(tkt.now) = 5
    /\ 20 * 60 + 40 <= MinuteOfDay(tkt.now)
    /\ MinuteOfDay(tkt.now) <= 21 * 60 + 30

\* C23: an update that begins with a draw cached fetches the winning numbers
\* exactly when it begins on a Saturday within 20:40..21:30 and the day of the
\* cached draw is not the day of the update.
C23_RefetchedWhenDatesDiffer ==
    DrawCached =>
        (tkt.decisions[1].fetch <=>
            (InWindow /\ tkt.before[1].draw_date.day # Date(tkt.now)))

(***************************************************************************)
(* winning_dict, the draws cached by round.  The purchase history of this  *)
(* specification has an item of last week's round that names a prize, so   *)
(* that async_get_rank looks its draw up.                                  *)
(***************************************************************************)
Histories == NoPrize \cup {<<1122>>}

NextCache == Advance \/ TicketRun(Draws, Histories) \/ TicketRankInfoReturn(Draws)

SpecCache == Init /\ [][NextCache]_vars

\* the rounds that have a draw in winning_dict
CachedRounds == {d.round_no : d \in tkt.winning_dict}

\* the step issues the fetch of the draw of round tkt'.round_no
RoundFetchIssued ==
    /\ tkt.pc \notin {"round_info", "rank_info"}
    /\ tkt'.pc \in {"round_info", "rank_info"}

\* the step is the body of async_clear_refresh of the ticket coordinator
ClearStep ==
    /\ tkt'.cleared
    /\ tkt'.pc = tkt.pc
    /\ tkt'.latest_winning_numbers = NoDraw
    /\ tkt'.buy_history_last_updated = NoTime
    /\ tkt'.winning_dict = {}

SlotManualShort == [mode |-> "MANUAL", numbers |-> <<3, 1, 3>>]

SlotSemiAutoOver == [mode |-> "SEMI_AUTO", numbers |-> <<7, 6, 5, 4, 3, 2, 1>>]

SlotLine == <<SlotManualShort, SlotSemiAutoOver, SlotAuto, SlotManualDup, SlotSemiAuto>>

\* the requests of the service: the runs of consecutive slots of SlotLine
SlotRequests == {SubSeq(SlotLine, i, j) : i \in 1..Len(SlotLine), j \in 1..Len(SlotLine)}

NextBuySlots == BuyStart(FewTimes, SlotRequests) \/ BuySteps

SpecBuySlots == Init /\ [][NextBuySlots]_vars

\* the different numbers of the i-th slot of the request
Chosen(i) == SeqRange(buy.request[i].numbers)

\* q lists the numbers of S in ascending order, each once
Ascending(q, S) ==
    /\ SeqRange(q) = S
    /\ \A j \in 1..(Len(q) - 1) : q[j] < q[j + 1]

\* C25: the payload has one entry for each slot kept, in the order of the
\* request; entry i is labelled with the i-th letter of ABCDE; its mode code
\* is 0 for AUTO, 2 for SEMI_AUTO, 1 for a MANUAL slot of 6 numbers and 2 for
\* a MANUAL slot of fewer; it has no number list for AUTO and else the
\* different numbers of the slot in ascending order; the mode of the caller's
\* slot is left as it was.
C25_PayloadOfSlots ==
    buy.sent # NoPost =>
        /\ Len(buy.sent.param) = buy.sent.gameCnt
        /\ Len(buy.sent.param) <= Len(buy.request)
        /\ \A i \in 1..Len(buy.sent.param) :
              LET e == buy.sent.param[i]
                  slot == buy.request[i]
              IN  /\ e.alpabet = <<"A", "B", "C", "D", "E">>[i]
                  /\ e.genType =
                        CASE slot.mode = "AUTO" -> "0"
                          [] slot.mode = "SEMI_AUTO" -> "2"
                          [] slot.mode = "MANUAL" ->
                                IF Cardinality(Chosen(i)) = 6 THEN "1" ELSE "2"
                  /\ IF slot.mode = "AUTO" THEN e.arrGameChoiceNum = <<0>>
                     ELSE Ascending(e.arrGameChoiceNum, Chosen(i))
                  /\ buy.items[i].mode = slot.mode

\* a purchase went out whose slots are labelled up to D, among them a MANUAL
\* slot of fewer than 6 numbers sent as 2 and one of 6 numbers sent as 1
C25_Witness ==
    /\ buy.sent # NoPost
    /\ buy.sent.gameCnt >= 4
    /\ \E i, j \in 1..buy.sent.gameCnt :
          /\ buy.request[i] = SlotManualShort /\ buy.sent.param[i].genType = "2"
          /\ buy.request[j].mode = "MANUAL" /\ buy.sent.param[j].genType = "1"

\* C26: a request of 1 to 5 slots in which no MANUAL slot holds more than 6
\* different numbers is not rejected for its numbers, however many entries
\* its number lists have; in the payload each different number of a slot
\* occurs once.
C26_DuplicatesDropped ==
    /\ ("count" \in SeqRange(buy.checks) /\ Len(buy.request) \in 1..5
          /\ \A i \in 1..Len(buy.request) :
                buy.request[i].mode = "MANUAL" => Cardinality(Chosen(i)) <= 6)
          => ~Rejected({"no_items", "too_many_items", "too_many_manual_numbers"})
    /\ buy.sent # NoPost =>
          \A i \in 1..Len(buy.sent.param) :
              buy.request[i].mode # "AUTO" =>
                  /\ SeqRange(buy.sent.param[i].arrGameChoiceNum) = Chosen(i)
                  /\ Len(buy.sent.param[i].arrGameChoiceNum) = Cardinality(Chosen(i))

\* a MANUAL slot of 7 entries and 6 different numbers was sent
C26_Witness ==
    /\ buy.sent # NoPost
    /\ \E i \in 1..buy.sent.gameCnt :
          /\ buy.request[i].mode = "MANUAL"
          /\ Len(buy.request[i].numbers) > 6
          /\ Len(buy.sent.param[i].arrGameChoiceNum) = 6

\* C27: no purchase POST carries a slot with more than 6 numbers.
C27_NoSlotOverSix ==
    buy.sent # NoPost =>
        \A i \in 1..Len(buy.sent.param) :
            buy.request[i].mode # "AUTO" => Len(buy.sent.param[i].arrGameChoiceNum) <= 6

(***************************************************************************)
(* pkcs1pad2(s, n) of dh_rsa.py.  The plaintext is a list of code points,  *)
(* the buffer ba a function on 0..n-1.  A negative index counts from the   *)
(* end of the list, as in Python.  The random bytes are drawn one by one.  *)
(* The value returned is the big-endian integer of ba; the model keeps ba. *)
(* The code points are below 65536, where c >> 12 has four bits.           *)
(***************************************************************************)
MaxTextLen == 2

\* "A", e-acute and the euro sign: 1, 2 and 3 bytes in UTF-8
Chars == {65, 233, 8364}

Texts == SeqsUpTo(Chars, MaxTextLen)

BlockSizes == 11..15

\* what os.urandom(1)[0] gives once the zeros are skipped
PadBytes == {1, 255}

\* n_idx -= 1; ba[n_idx] = v
put(p, v) ==
    LET idx == p.n_idx - 1
    IN  [p EXCEPT !.n_idx = idx, !.ba[IF idx < 0 THEN p.n + idx ELSE idx] = v]

\* the bytes of one character, the last one first
put_char(p, c) ==
    IF c < 128 THEN put(p, c)
    ELSE IF c < 2048 THEN put(put(p, (c % 64) + 128), (c \div 64) + 192)
    ELSE put(put(put(p, (c % 64) + 128), ((c \div 64) % 64) + 128), (c \div 4096) + 224)

\* while i >= 0 and n_idx > 0, with i counted from 1
RECURSIVE encode(_, _)
encode(p, i) ==
    IF i < 1 \/ p.n_idx <= 0 THEN p ELSE encode(put_char(p, p.s[i]), i - 1)

\* pkcs1pad2 from its call to the first random byte
pkcs1pad2(s, n) ==
    IF n < Len(s) + 11
    THEN [IdlePad EXCEPT !.pc = "done", !.s = s, !.n = n,
                         !.result = Raise(Exc("ValueError", "message_too_long"))]
    ELSE LET p0 == [IdlePad EXCEPT !.pc = "fill", !.s = s, !.n = n, !.n_idx = n,
                                   !.ba = [j \in 0..(n - 1) |-> 0]]
         IN  put(encode(p0, Len(s)), 0)

\* the header, and the value returned
pkcs1pad2_return(p) ==
    LET ba == [p.ba EXCEPT ![1] = 2, ![0] = 0]
    IN  [p EXCEPT !.pc = "done", !.ba = ba, !.result = Return(ba)]

PadCall ==
    /\ pad.pc = "idle"
    /\ \E s \in Texts, n \in BlockSizes : pad' = pkcs1pad2(s, n)
    /\ UNCHANGED <<clientVars, clock, acct, tkt, svc, rk, buys, hist>>

PadFill ==
    /\ pad.pc = "fill"
    /\ pad.n_idx > 2
    /\ \E x \in PadBytes : pad' = put(pad, x)
    /\ UNCHANGED <<clientVars, clock, acct, tkt, svc, rk, buys, hist>>

PadReturn ==
    /\ pad.pc = "fill"
    /\ pad.n_idx <= 2
    /\ pad' = pkcs1pad2_return(pad)
    /\ UNCHANGED <<clientVars, clock, acct, tkt, svc, rk, buys, hist>>

PadEnd ==
    /\ pad.pc = "done"
    /\ pad' = IdlePad
    /\ UNCHANGED <<clientVars, clock, acct, tkt, svc, rk, buys, hist>>

NextPad == PadCall \/ PadFill \/ PadReturn \/ PadEnd

SpecPad == Init /\ [][NextPad]_vars

\* the bytes of a character in UTF-8
Utf8(c) ==
    IF c < 128 THEN <<c>>
    ELSE IF c < 2048 THEN <<192 + (c \div 64), 128 + (c % 64)>>
    ELSE <<224 + (c \div 4096), 128 + ((c \div 64) % 64), 128 + (c % 64)>>

RECURSIVE Encoded(_)
Encoded(s) == IF s = <<>> THEN <<>> ELSE Utf8(Head(s)) \o Encoded(Tail(s))

\* C28: pkcs1pad2 fails exactly when the block size is below the number of
\* encoded bytes plus 11; when it does not fail the buffer is 0x00, 0x02, at
\* least 8 bytes none of which is zero, 0x00, and the encoded bytes of the
\* plaintext in order.
C28_PaddedWhenBytesFit ==
    pad.pc = "done" =>
        LET m == Encoded(pad.s)
            k == pad.n
            b == pad.ba
        IN  /\ ~pad.result.ok <=> k < Len(m) + 11
            /\ pad.result.ok =>
                  /\ k - Len(m) - 3 >= 8
                  /\ b[0] = 0
                  /\ b[1] = 2
                  /\ \A j \in 2..(k - Len(m) - 2) : b[j] # 0
                  /\ b[k - Len(m) - 1] = 0
                  /\ \A j \in 1..Len(m) : b[k - Len(m) + j - 1] = m[j]

(***************************************************************************)
(* Acquisitions of the lock by one call of async_get_with_login.  The      *)
(* retry is a recursive call made inside the `with self.lock:' block of    *)
(* the frame that caught the DhAPIError, so the inner frame's `with'       *)
(* acquires the lock its caller still holds; threading.RLock counts it.    *)
(***************************************************************************)
Retrying(c) ==
    /\ call[c].pc = "get"
    /\ call[c].trace # <<>>
    /\ call[c].trace[Len(call[c].trace)].op = "login"

\* C29 as stated: no caller acquires the lock while it already holds it.
C29_NeverReacquired == \A c \in Callers : call[c].depth <= 1

\* C29 amended: the retry path acquires the lock a second time while the
\* caller's outer frame holds it, exactly when the GET after a successful
\* login is in flight and never a third time; the lock then counts at least
\* two acquisitions by the one thread, and a finished call holds nothing.
C29_ReacquiredOnRetry ==
    \A c \in Callers :
        /\ call[c].depth \in 0..2
        /\ call[c].depth = 2 <=> Retrying(c)
        /\ call[c].depth = 0 <=> call[c].pc \in {"idle", "done"}
        /\ call[c].depth >= 1 =>
              /\ lock.owner = ThreadOf(c)
              /\ lock.count >= call[c].depth
        /\ (\A d \in Callers : call[d].depth = 0) => lock = RLockFree

C29_Witness ==
    \E c \in Callers :
        /\ Retrying(c)
        /\ call[c].depth = 2
        /\ lock.count = 2

(***************************************************************************)
(* Several async_buy calls and the coordinators' queries at once.  Every   *)
(* call of async_buy has its own locals: the call of task t runs in        *)
(* buys[t], through the same stretches of code as a call on its own.  Each *)
(* of its authenticated queries is taken as one step, the GET, the login   *)
(* and the second GET of async_get_with_login in a row; the steps of the   *)
(* other task and of the coordinators' queries fall between them.          *)
(***************************************************************************)
OpenTimes == {Clock(Saturday - 1, 6, 0)}

FiveAuto == [i \in 1..5 |-> SlotAuto]

CrowdRequests == {<<SlotAuto>>, FiveAuto}

\* ledgers with undrawn quantities 0, 4 and 5; one has a drawn entry too
CrowdLedgers ==
    { <<>>,
      <<[prchsQty |-> 4, ltWnResult |-> Undrawn], [prchsQty |-> 5, ltWnResult |-> Drawn]>>,
      <<[prchsQty |-> 5, ltWnResult |-> Undrawn]>> }

\* the balances a task is answered with: the price of one slot and of five
CrowdAmounts == {1000, 5000}

OkResponse(d) ==
    [conn |-> TRUE, status |-> 200, reason |-> "OK", json |-> TRUE, body |-> [data |-> d]]

\* the answers to a request of a task.  To the authenticated queries: every
\* failure, and of the ledger and of the balance the values above.  To the
\* round query and the two POSTs: a transport failure and the answers with
\* the fields the code reads.
CrowdResponses(path) ==
    CASE path = "ledger" ->
            FailResponses \cup {OkResponse([list |-> l]) : l \in CrowdLedgers}
      [] path = "userMndp" ->
            FailResponses \cup
            {OkResponse([userMndp |-> [crntEntrsAmt |-> a]]) : a \in CrowdAmounts}
      [] path = "roundInfo" -> {TransportFailure} \cup OkResponses(path)
      [] path = "readySocket" ->
            {r \in SocketResponses : ~r.conn \/ "ready_ip" \in DOMAIN r.body}
      [] path = "execBuy" ->
            {r \in ExecResponses :
                \/ ~r.conn
                \/ "result" \in DOMAIN r.body /\ "resultMsg" \in DOMAIN r.body.result}
      [] OTHER -> Responses(path)

TaskResume(t, res) == buys' = [buys EXCEPT ![t] = buy_resume(buys[t], res)]

\* async_buy(items) is called by task t and runs to its first await
TaskCall(t, times, requests) ==
    /\ buys[t].pc = "idle"
    /\ \E now \in times, request \in requests :
         buys' = [buys EXCEPT ![t] = buy_begin(now, request)]
    /\ UNCHANGED <<clientVars, clock, acct, tkt, svc, rk, pad, hist>>

\* async_get_with_login(path, params) of task t, from its call to its return
TaskQueryReturn(t) ==
    /\ buys[t].pc \in CallPcs
    /\ RLockCanAcquire(lock, EventLoopThread)
    /\ \E resp \in CrowdResponses(buys[t].pc) :
         LET r == async_get(resp) IN
         IF ~r.ok /\ r.exc.type = "DhAPIError" /\ DefaultRetry > 0
         THEN \E lr \in LoginResponses :
                LET out == async_login(lr, loggedIn) IN
                /\ loggedIn' = out.loggedIn
                /\ IF out.result.ok
                   THEN \E again \in CrowdResponses(buys[t].pc) :
                          TaskResume(t, GetOutcome(async_get(again)))
                   ELSE TaskResume(t, out.result)
         ELSE /\ TaskResume(t, GetOutcome(r))
              /\ UNCHANGED loggedIn
    /\ UNCHANGED <<lock, call, buy, clock, acct, tkt, svc, rk, pad, hist>>

TaskRoundReturn(t) ==
    /\ buys[t].pc = "round"
    /\ \E resp \in CrowdResponses("roundInfo") :
         buys' = [buys EXCEPT ![t] = buy_on_round(buys[t], resp)]
    /\ UNCHANGED <<clientVars, clock, acct, tkt, svc, rk, pad, hist>>

TaskSocketReturn(t) ==
    /\ buys[t].pc = "socket"
    /\ \E resp \in CrowdResponses("readySocket") :
         buys' = [buys EXCEPT ![t] = buy_on_socket(buys[t], resp)]
    /\ UNCHANGED <<clientVars, clock, acct, tkt, svc, rk, pad, hist>>

TaskExecReturn(t) ==
    /\ buys[t].pc = "exec"
    /\ \E resp \in CrowdResponses("execBuy") :
         buys' = [buys EXCEPT ![t] = buy_on_exec(buys[t], resp)]
    /\ UNCHANGED <<clientVars, clock, acct, tkt, svc, rk, pad, hist>>

\* async_buy has returned or raised: the task ends
TaskEnd(t) ==
    /\ buys[t].pc = "done"
    /\ buys' = [buys EXCEPT ![t] = IdleBuy]
    /\ UNCHANGED <<clientVars, clock, acct, tkt, svc, rk, pad, hist>>

TaskRun(t) ==
    \/ TaskCall(t, OpenTimes, CrowdRequests)
    \/ TaskQueryReturn(t)
    \/ TaskRoundReturn(t)
    \/ TaskSocketReturn(t)
    \/ TaskExecReturn(t)
    \/ TaskEnd(t)

\* the account coordinator's query stands for the coordinators' queries: the
\* ticket coordinator's runs through the same code
CoordinatorCallers == {"account"}

CoordinatorQuery ==
    \E c \in CoordinatorCallers : CallStart(c) \/ GetReturn(c) \/ LoginReturn(c)

NextCrowd == (\E t \in Tasks : TaskRun(t)) \/ CoordinatorQuery

SpecCrowd == Init /\ [][NextCrowd]_vars

\* C30: every purchase POST a call of async_buy sends carries n slots with
\* 1 <= n <= 5 and runningTotal + n <= 5, runningTotal being the undrawn
\* quantity of the ledger that same call read, whatever the other call and
\* the coordinator's query are doing meanwhile.
C30_PostWithinQuota ==
    \A t \in Tasks :
        buys[t].sent # NoPost =>
            LET n == buys[t].sent.gameCnt
                runningTotal == UndrawnQuantity(buys[t].ledger)
            IN  /\ n \in 1..5
                /\ runningTotal + n <= 5
                /\ Len(buys[t].sent.param) = n
                /\ buys[t].sent.nBuyAmount = 1000 * n

\* both calls have read 4 undrawn games and each has sent one slot of five,
\* while the coordinator's query is logging in
C30_Witness ==
    /\ \A t \in Tasks :
          /\ buys[t].pc = "exec"
          /\ UndrawnQuantity(buys[t].ledger) = 4
          /\ Len(buys[t].request) = 5
          /\ buys[t].sent.gameCnt = 1
    /\ \E c \in CoordinatorCallers : call[c].pc = "login"

(***************************************************************************)
(* async_clear_refresh called while an update of the same coordinator is   *)
(* suspended in a fetch.  c.cleared is set by async_clear_refresh and      *)
(* taken by the next update as it begins, so an update that ends with      *)
(* c.cleared set was in flight when async_clear_refresh ran.               *)
(***************************************************************************)
ClearedInFlight(c) == c.pc = "done" /\ c.cleared

\* C31: when async_clear_refresh ran while an update of the coordinator was
\* suspended in a fetch, every marker it reset is still never-updated once
\* that update has ended.
C31_ResetSurvivesUpdate ==
    /\ ClearedInFlight(acct) =>
          /\ acct.balance_last_updated = NoTime
          /\ acct.accumulated_prize_last_updated = NoTime
    /\ ClearedInFlight(tkt) =>
          /\ tkt.latest_winning_numbers = NoDraw
          /\ tkt.buy_history_last_updated = NoTime

(***************************************************************************)
(* What an update that raises leaves behind.  The values an update has     *)
(* fetched are locals (balance, accumulated_prize, latest_winning_numbers, *)
(* buy_history_this_week) that reach the consumer only in the dict of the  *)
(* return statement; an update that raises returns none of them.           *)
(***************************************************************************)
Raised(c) == c.pc = "done" /\ c.outcome # "ok" /\ ~c.cleared

\* C32: an update that ends by raising, so that none of the values it fetched
\* reaches its consumer, has advanced no marker: the timestamps and the
\* cached latest draw are as they were before the update (the purchase-history
\* timestamp possibly reset to never-updated).
C32_RaisedUpdateMarksNothing ==
    /\ Raised(acct) =>
          /\ acct.balance_last_updated = acct.before[1]
          /\ acct.accumulated_prize_last_updated = acct.before[2]
    /\ Raised(tkt) =>
          /\ tkt.latest_winning_numbers = tkt.before[1]
          /\ tkt.buy_history_last_updated \in {tkt.before[2], NoTime}

(***************************************************************************)
(* The purchase history of an update of the ticket coordinator.            *)
(* DhLotto645.async_get_buy_history_this_week walks the ledger, awaiting   *)
(* the receipt of each entry, and stops after the entry with which the     *)
(* games collected are 5 or more.  _async_get_buy_history_this_week then   *)
(* goes through the games of each entry it was given, awaiting the rank of *)
(* a game of a winning entry, and leaves the loop over the games of an     *)
(* entry once its list holds 5; the loop over the entries goes on.  The    *)
(* rank of a winning game is a value of calculate_rank; which draw it is   *)
(* computed from is the matter of winning_dict above.                      *)
(***************************************************************************)
MaxEntries == 3

MaxGames == 5

WalkLimit == 5

ListLimit == 5

\* the ledger's ltWnResult of a ticket with a prize
Won == "won"

HistoryLedgers ==
    SeqsUpTo([ltEpsd : RoundNos, ltWnResult : {Undrawn, Drawn, Won}], MaxEntries)

\* game_dtl of a receipt with n games
Receipt_of(n) == [j \in 1..n |-> [slot |-> j, mode |-> "AUTO", numbers |-> <<>>]]

Receipts == {Receipt_of(n) : n \in 0..MaxGames}

\* the ranks given to the games of a winning entry
WonRanks == {0, 5}

RECURSIVE GamesIn(_)
\* sum([len(item.games) for item in items])
GamesIn(history) ==
    IF history = <<>> THEN 0 ELSE Len(Head(history).games) + GamesIn(Tail(history))

hist_raise(h) == [h EXCEPT !.pc = "done", !.outcome = "DhLotteryError"]

\* items.append(DhLotto645BuyData(...)) and the test that follows it, the
\* loop over the games of an entry going on
hist_append_no_break(h, rank) ==
    LET entry == h.history[h.item]
        data == [round_no |-> entry.round_no, game |-> entry.games[h.game],
                 rank |-> rank, result |-> entry.result]
    IN  [h EXCEPT !.items = Append(@, data), !.game = @ + 1]

\* items.append(DhLotto645BuyData(...)) and the test that follows it
hist_append(h, rank) ==
    LET entry == h.history[h.item]
        data == [round_no |-> entry.round_no, game |-> entry.games[h.game],
                 rank |-> rank, result |-> entry.result]
        items == Append(h.items, data)
    IN  IF Len(items) >= ListLimit
        THEN [h EXCEPT !.items = items, !.item = @ + 1, !.game = 1]
        ELSE [h EXCEPT !.items = items, !.game = @ + 1]

RECURSIVE hist_flatten(_)
\* the two loops of _async_get_buy_history_this_week, up to the next await
hist_flatten(h) ==
    IF h.item > Len(h.history) THEN [h EXCEPT !.pc = "done", !.outcome = "ok"]
    ELSE IF h.game > Len(h.history[h.item].games)
    THEN hist_flatten([h EXCEPT !.item = @ + 1, !.game = 1])
    ELSE IF h.history[h.item].result = Undrawn THEN hist_flatten(hist_append(h, 0 - 1))
    ELSE IF h.history[h.item].result = Won THEN [h EXCEPT !.pc = "rank"]
    ELSE hist_flatten(hist_append(h, 0))

\* async_get_buy_list returns
hist_on_buy_list(h, out, results) ==
    IF out # "ok" THEN hist_raise(h)
    ELSE IF results = <<>> THEN hist_flatten([h EXCEPT !.results = results])
    ELSE [h EXCEPT !.results = results, !.pc = "receipt"]

\* async_get_receipt of the entry the walk is at returns
hist_on_receipt(h, out, games) ==
    IF out # "ok" THEN hist_raise(h)
    ELSE LET result == h.results[Len(h.history) + 1]
             entry == [round_no |-> result.ltEpsd, result |-> result.ltWnResult,
                       games |-> games]
             history == Append(h.history, entry)
             h1 == [h EXCEPT !.history = history]
         IN  IF GamesIn(history) >= WalkLimit \/ Len(history) = Len(h.results)
             THEN hist_flatten(h1)
             ELSE h1

\* async_get_rank of a game of a winning entry returns
hist_on_rank(h, out, rank) ==
    IF out # "ok" THEN hist_raise(h) ELSE hist_flatten(hist_append(h, rank))

HistoryCall ==
    /\ hist.pc = "idle"
    /\ hist' = [IdleHist EXCEPT !.pc = "buy_list"]
    /\ UNCHANGED <<clientVars, clock, acct, tkt, svc, rk, pad, buys>>

HistoryBuyListReturn ==
    /\ hist.pc = "buy_list"
    /\ \E out \in {"ok", "DhLotteryError"}, results \in HistoryLedgers :
         /\ out # "ok" => results = <<>>
         /\ hist' = hist_on_buy_list(hist, out, results)
    /\ UNCHANGED <<clientVars, clock, acct, tkt, svc, rk, pad, buys>>

HistoryReceiptReturn ==
    /\ hist.pc = "receipt"
    /\ \E out \in {"ok", "DhLotteryError"}, games \in Receipts :
         /\ out # "ok" => games = <<>>
         /\ hist' = hist_on_receipt(hist, out, games)
    /\ UNCHANGED <<clientVars, clock, acct, tkt, svc, rk, pad, buys>>

HistoryRankReturn ==
    /\ hist.pc = "rank"
    /\ \E out \in {"ok", "DhLotteryError"}, rank \in WonRanks :
         hist' = hist_on_rank(hist, out, rank)
    /\ UNCHANGED <<clientVars, clock, acct, tkt, svc, rk, pad, buys>>

HistoryEnd ==
    /\ hist.pc = "done"
    /\ hist' = IdleHist
    /\ UNCHANGED <<clientVars, clock, acct, tkt, svc, rk, pad, buys>>

NextHistory ==
    \/ HistoryCall
    \/ HistoryBuyListReturn
    \/ HistoryReceiptReturn
    \/ HistoryRankReturn
    \/ HistoryEnd

SpecHistory == Init /\ [][NextHistory]_vars

\* the games of the first m entries of a history, entry by entry
RECURSIVE GamesOfFirst(_, _)
GamesOfFirst(history, m) ==
    IF m = 0 THEN <<>>
    ELSE GamesOfFirst(history, m - 1) \o
         [j \in 1..Len(history[m].games) |->
             [round_no |-> history[m].round_no, game |-> history[m].games[j],
              result |-> history[m].result]]

WalkReturned == hist.pc = "rank" \/ (hist.pc = "done" /\ hist.outcome = "ok")

\* C33: the list _async_get_buy_history_this_week builds never holds more
\* than 5 games.  The walk of the ledger has taken no entry after one with
\* which the games collected were 5 or more, and has stopped short of the
\* end of the ledger only after such an entry; the list returned holds the
\* games of the entries walked, in order, up to the fifth.
C33_AtMostFiveGames ==
    LET all == GamesOfFirst(hist.history, Len(hist.history))
    IN  /\ Len(hist.items) <= 5
        /\ \A m \in 1..(Len(hist.history) - 1) : Len(GamesOfFirst(hist.history, m)) < 5
        /\ WalkReturned =>
              \/ Len(hist.history) = Len(hist.results)
              \/ Len(all) >= 5
        /\ (hist.pc = "done" /\ hist.outcome = "ok") =>
              /\ Len(hist.items) = IF Len(all) < 5 THEN Len(all) ELSE 5
              /\ \A i \in 1..Len(hist.items) :
                    /\ hist.items[i].game = all[i].game
                    /\ hist.items[i].round_no = all[i].round_no
                    /\ hist.items[i].result = all[i].result
                    /\ hist.items[i].rank \in
                          IF all[i].result = Undrawn THEN {0 - 1}
                          ELSE IF all[i].result = Won THEN 0..5 ELSE {0}

\* a ledger of three entries: the walk stopped after the second, with 3 + 4
\* games, and the list holds 5 of the 7
C33_Witness ==
    /\ hist.pc = "done"
    /\ hist.outcome = "ok"
    /\ Len(hist.results) = 3
    /\ Len(hist.history) = 2
    /\ Len(hist.history[1].games) = 3
    /\ Len(hist.history[2].games) = 4
    /\ Len(hist.items) = 5
    /\ hist.items[5].game = hist.history[2].games[2]

=============================================================================
